---- MODULE Spec2Model ----
(***************************************************************************)
(* Node agent of the WabiSaby storage network: Agent.Start drives the      *)
(* IPFS lifecycle manager through setup, registers with the coordinator,   *)
(* forms the peer mesh and then runs the heartbeat loop, the task-poll     *)
(* loop and one pin handler per received task until its context is         *)
(* cancelled. A second part drives the IPFS lifecycle manager on its own,  *)
(* under any caller. Further parts cover the process around the agent      *)
(* (main and the start and stop hooks), the heartbeat loop with RepoStat,   *)
(* the task loop with its handlers, ConfigurePrivateNetwork, the two loops *)
(* up to Start's return, EnsureInstalled and LoadNodeConfig.               *)
(***************************************************************************)
EXTENDS Integers, Sequences, FiniteSets, Bags, TLC

\* Heartbeat ticks and task polls taken, and pin handlers dispatched, in one run.
MaxHeartbeats == 4
MaxPolls == 2
MaxHandlers == 2

\* AgentConfig.AuthToken and the metadata entry built from it.
AuthToken == "tok"
BearerOf(token) == <<"Bearer", token>>

\* The coordinator's RPCs.
CoordinatorOps == {"Register", "GetPeers", "Heartbeat", "GetPinTasks", "ReportPinStatus"}
OtherOps == CoordinatorOps \ {"Register"}

\* What the coordinator may answer to Register: a transport error, a
\* rejection (with or without a node id in it), or success with any node id.
RegisterResponses ==
    { [err |-> TRUE,  success |-> FALSE, nodeId |-> ""],
      [err |-> FALSE, success |-> FALSE, nodeId |-> ""],
      [err |-> FALSE, success |-> FALSE, nodeId |-> "n1"],
      [err |-> FALSE, success |-> TRUE,  nodeId |-> ""],
      [err |-> FALSE, success |-> TRUE,  nodeId |-> "n1"] }

\* What the coordinator may answer to GetPeers: a transport error, a response
\* with its error field set, or a list of peers, each a list of multiaddrs.
PeerLists ==
    { <<>>,
      << <<"a1">> >>,
      << <<"a1", "a2">>, <<"a3">> >>,
      << <<>>, <<"a1">>, <<"a1">> >> }
GetPeersResponses ==
    { [err |-> TRUE,  error |-> "", peers |-> <<>>],
      [err |-> FALSE, error |-> "denied", peers |-> <<>>] }
    \cup { [err |-> FALSE, error |-> "", peers |-> p] : p \in PeerLists }

\* What the coordinator may answer to GetPinTasks.
TaskIDs == {"t1", "t2"}
TaskLists == { <<>>, <<"t1">>, <<"t2">>, <<"t1", "t2">> }

\* The order of Agent.Start's startup steps.
StartupOrder ==
    << "EnsureInstalled", "InitializeRepo", "ConfigurePrivateNetwork",
       "StartDaemon", "GetPeerInfo", "NewClient", "Register" >>

VARIABLES
    pc,          \* where Agent.Start is
    startErr,    \* what Start returned: "running" until it returns
    steps,       \* the startup steps Start has invoked, in order
    failedStep,  \* the startup step that returned an error, "" if none
    cancelled,   \* ctx.Done() is closed
    nodeID,      \* Agent.nodeID
    peerID,      \* Agent.peerID
    conn,        \* Agent.conn: "nil", "open", "closed"
    mgr,         \* IPFSManager: binaryPath, ipfsClient, daemonCmd, daemonReady
    repoExists,  \* the repository's config artifact exists on disk
    watcher,     \* IPFSManager.waitForDaemon goroutine
    regResps,    \* the responses Register calls have returned
    issued,      \* coordinator calls issued, per RPC
    rpcs,        \* the distinct coordinator requests sent
    cp,          \* connectToPeers' frame
    hbLoop,      \* heartbeatLoop goroutine
    hbTicks,     \* ticks heartbeatLoop has taken
    hbOKs,       \* Heartbeat calls that succeeded
    taskLoop,    \* taskLoop goroutine
    polls,       \* poll ticks taken
    handlers,    \* bag of processTask goroutines
    reported,    \* per task and status: the ReportPinStatus calls issued
    stopRet,     \* what StopDaemon returned to Start: "none" until it is called
    caller,      \* a caller of the IPFSManager other than Start: its call in progress
    procs,       \* the daemon processes launched for that caller, in order
    watchers,    \* their waitForDaemon goroutines, in order
    seenReady,   \* a Version probe sent after the latest launch was answered
    hist,        \* that caller's completed calls, in order
    main,        \* where the process' main goroutine is: "none" without one
    repoStat,    \* what RepoStat returns to a heartbeat tick
    hbSent,      \* the StorageUsedBytes of the Heartbeat request built from it, if any
    netcfg,      \* the repository's network configuration: swarm key, bootstrap list
    reportLog,   \* when switched on: the tasks delivered and the reports that failed
    configSource,\* what the configuration file, the environment and the disk hold
    config       \* the NodeConfig LoadNodeConfig returned, if it has run

vars == << pc, startErr, steps, failedStep, cancelled, nodeID, peerID, conn, mgr,
           repoExists, watcher, regResps, issued, rpcs, cp, hbLoop, hbTicks,
           hbOKs, taskLoop, polls, handlers, reported, stopRet, caller, procs,
           watchers, seenReady, hist, main, repoStat, hbSent, netcfg,
           reportLog, configSource, config >>

agentVars == << nodeID, peerID, conn >>
mgrVars == << mgr, repoExists, watcher >>
rpcVars == << regResps, issued, rpcs >>
hbVars == << hbLoop, hbTicks, hbOKs >>
taskVars == << taskLoop, polls, handlers, reported >>
apiVars == << caller, procs, watchers, seenReady, hist >>
cfgVars == << configSource, config >>
mainVars == << main, repoStat, hbSent, reportLog, cfgVars >>
envVars == << mainVars, netcfg >>

\* connectToPeers' frame while it is not running.
NoFrame == [got |-> FALSE, peers |-> <<>>, i |-> 1, j |-> 1, connected |-> 0,
            failed |-> 0, attempted |-> <<>>, ret |-> ""]

\* The manager's caller between two calls.
Idle == [op |-> "idle", at |-> ""]

(***************************************************************************)
(* heartbeatLoop's storage figure: RepoStat's uint64 RepoSize turned into   *)
(* the int64 StorageUsedBytes of the Heartbeat request. A 64-bit word is    *)
(* four 16-bit limbs, most significant first.                              *)
(***************************************************************************)

\* Limb values at the edges of the 16-bit range, and the uint64 words made of them.
LimbSamples == {0, 1, 2^15 - 1, 2^15, 2^16 - 1}
Uint64Samples == { <<a, b, c, d>> : a, b, c, d \in LimbSamples }

\* What RepoStat may return: an error, or a result with any RepoSize.
RepoStatResults == [err : BOOLEAN, RepoSize : Uint64Samples]

\* math.MaxInt64, 2^63 - 1, as a uint64 word.
MaxInt64 == << 2^15 - 1, 2^16 - 1, 2^16 - 1, 2^16 - 1 >>

ZeroWord == << 0, 0, 0, 0 >>

\* a > b on uint64 words.
GreaterUint64(a, b) ==
    \E i \in 1..4 : a[i] > b[i] /\ \A j \in 1..(i - 1) : a[j] = b[j]

\* word + 1 modulo 2^64, the carry running up from limb i.
RECURSIVE AddOne(_, _)
AddOne(word, i) ==
    IF i = 0 THEN word
    ELSE IF word[i] = 2^16 - 1 THEN AddOne([word EXCEPT ![i] = 0], i - 1)
    ELSE [word EXCEPT ![i] = @ + 1]

\* The conversion int64(u): the same 64 bits read as two's complement, given
\* as sign and magnitude. A word with the top bit set is the negative number
\* u - 2^64, of magnitude 2^64 - u.
Int64Of(u) ==
    IF u[1] >= 2^15
    THEN [neg |-> TRUE, mag |-> AddOne([i \in 1..4 |-> 2^16 - 1 - u[i]], 4)]
    ELSE [neg |-> FALSE, mag |-> u]

\* A heartbeatLoop that converts RepoSize without the range check.
storageUsedUnchecked(statErr, RepoSize) ==
    IF statErr THEN Int64Of(ZeroWord) ELSE Int64Of(RepoSize)

\* A heartbeatLoop that reads the result of a RepoStat call that failed.
storageUsedIgnoringErr(statErr, RepoSize) ==
    IF GreaterUint64(RepoSize, MaxInt64) THEN Int64Of(MaxInt64) ELSE Int64Of(RepoSize)

\* heartbeatLoop: storageUsed is 0 when RepoStat failed, math.MaxInt64 when
\* RepoSize exceeds it, and int64(RepoSize) otherwise.
storageUsed(statErr, RepoSize) ==
    IF statErr THEN Int64Of(ZeroWord)
    ELSE IF GreaterUint64(RepoSize, MaxInt64) THEN Int64Of(MaxInt64)
    ELSE Int64Of(RepoSize)

\* RepoStat on a repository that holds nothing.
EmptyRepoStat == [err |-> FALSE, RepoSize |-> ZeroWord]

\* The bootstrap list of a repository nobody has configured: the public
\* bootstrap nodes the daemon's defaults name.
DefaultBootstrap == {"public1", "public2"}

\* The network configuration of a repository nobody has configured: no swarm
\* key file, the default bootstrap list.
InitialNetcfg == [swarmKey |-> "", bootstrap |-> DefaultBootstrap]

\* The log of task deliveries and failed reports, switched off.
NoLog ==
    [on |-> FALSE, delivered |-> [t \in TaskIDs |-> 0], failed |-> <<>>,
     pollErrs |-> <<>>]

(***************************************************************************)
(* LoadNodeConfig: storage.capacity_gb.  A uint64 is four 16-bit limbs,    *)
(* most significant first, as for RepoSize below.                          *)
(***************************************************************************)

Limb == 65536

\* viper.SetDefault("storage.capacity_gb", 100)
DefaultCapacityGB == 100

\* The fallback of LoadNodeConfig when detection yields nothing.
FallbackCapacityGB == 100

\* w * k modulo 2^64, for a small k: Go's uint64 multiplication wraps.
MulSmall(w, k) ==
    LET p4 == w[4] * k
        p3 == w[3] * k + p4 \div Limb
        p2 == w[2] * k + p3 \div Limb
        p1 == w[1] * k + p2 \div Limb
    IN  << p1 % Limb, p2 % Limb, p3 % Limb, p4 % Limb >>

\* w / k for a small k: Go's uint64 division truncates.
DivSmall(w, k) ==
    LET r1 == w[1] % k
        n2 == r1 * Limb + w[2]
        n3 == (n2 % k) * Limb + w[3]
        n4 == (n3 % k) * Limb + w[4]
    IN  << w[1] \div k, n2 \div k, n3 \div k, n4 \div k >>

\* int64(w / (1024*1024*1024)) for a w that is some uint64 over 100.
GiBOf(w) == w[1] * 262144 + w[2] * 4 + w[3] \div 16384

\* viper: the environment variable overrides the file, the file overrides
\* the default registered with SetDefault.
ViperGet(src, default) ==
    IF src.env # <<>> THEN src.env[1]
    ELSE IF src.file # <<>> THEN src.file[1]
    ELSE default

\* detectStorageCapacity: 0 when Getwd or Statfs fails, otherwise 80% of
\* Bavail * Bsize in GB.
detectStorageCapacity(src) ==
    IF ~src.getwdOK THEN 0
    ELSE IF ~src.statfsOK THEN 0
    ELSE GiBOf(DivSmall(MulSmall(src.availableBytes, 80), 100))

\* LoadNodeConfig: Storage.CapacityGB of the NodeConfig it returns.
LoadedCapacityGB(src) ==
    LET unmarshalled == ViperGet(src, DefaultCapacityGB)
        capacityGB == detectStorageCapacity(src)
    IN  IF unmarshalled = 0
        THEN IF capacityGB > 0 THEN capacityGB ELSE FallbackCapacityGB
        ELSE unmarshalled

\* The sources once LoadNodeConfig has returned: nothing reads them again.
SourcesRead == <<>>

\* A host with nothing configured and 1 TiB available.
DefaultSource ==
    [file |-> <<>>, env |-> <<>>, getwdOK |-> TRUE, statfsOK |-> TRUE,
     availableBytes |-> << 0, 256, 0, 0 >>]


\* NewAgent and NewIPFSManager as wired by ProvideIPFSManager (BinaryPath "").
Init ==
    /\ pc = "EnsureInstalled"
    /\ startErr = "running"
    /\ steps = <<>>
    /\ failedStep = ""
    /\ cancelled = FALSE
    /\ nodeID = ""
    /\ peerID = ""
    /\ conn = "nil"
    /\ mgr = [binaryPath |-> "", ipfsClient |-> "nil", daemonCmd |-> "nil",
              daemonReady |-> FALSE]
    /\ repoExists \in BOOLEAN
    /\ watcher = "none"
    /\ regResps = <<>>
    /\ issued = [op \in CoordinatorOps |-> 0]
    /\ rpcs = {}
    /\ cp = NoFrame
    /\ hbLoop = "notStarted"
    /\ hbTicks = 0
    /\ hbOKs = 0
    /\ taskLoop = "notStarted"
    /\ polls = 0
    /\ handlers = EmptyBag
    /\ reported = [t \in TaskIDs |-> [s \in {"PINNED", "FAILED"} |-> 0]]
    /\ stopRet = "none"
    /\ caller = Idle
    /\ procs = <<>>
    /\ watchers = <<>>
    /\ seenReady = FALSE
    /\ hist = <<>>
    /\ main = "none"
    /\ repoStat = EmptyRepoStat
    /\ hbSent = <<>>
    /\ netcfg = InitialNetcfg
    /\ reportLog = NoLog
    /\ configSource = SourcesRead
    /\ config = << LoadedCapacityGB(DefaultSource) >>

(***************************************************************************)
(* IPFSManager                                                             *)
(***************************************************************************)

\* An EnsureInstalled that takes a configured path without looking at it.
EnsureInstalledResultTrustingPath(binaryPath, statOK, lookPathOK) ==
    IF binaryPath # "" THEN [err |-> FALSE, binaryPath |-> binaryPath]
    ELSE IF lookPathOK THEN [err |-> FALSE, binaryPath |-> "PATH/ipfs"]
    ELSE [err |-> TRUE, binaryPath |-> binaryPath]

\* EnsureInstalled: the explicit path if it exists, else the search path, else
\* downloadIPFS, which always returns an error.
EnsureInstalledResult(binaryPath, statOK, lookPathOK) ==
    IF binaryPath # "" /\ statOK THEN [err |-> FALSE, binaryPath |-> binaryPath]
    ELSE IF lookPathOK THEN [err |-> FALSE, binaryPath |-> "PATH/ipfs"]
    ELSE [err |-> TRUE, binaryPath |-> binaryPath]

\* An InitializeRepo without the check for an existing repository.
InitializeRepoResultNoCheck(exists, mkdirOK, initOK) ==
    IF ~mkdirOK THEN [err |-> TRUE, exists |-> exists, ranInit |-> FALSE, mkdir |-> TRUE]
    ELSE [err |-> ~initOK, exists |-> initOK, ranInit |-> TRUE, mkdir |-> TRUE]

\* InitializeRepo: nothing to do when the config artifact exists; otherwise
\* MkdirAll and `ipfs init`, each of which may fail.
InitializeRepoResult(exists, mkdirOK, initOK) ==
    IF exists THEN [err |-> FALSE, exists |-> TRUE, ranInit |-> FALSE, mkdir |-> FALSE]
    ELSE IF ~mkdirOK THEN [err |-> TRUE, exists |-> FALSE, ranInit |-> FALSE, mkdir |-> TRUE]
    ELSE [err |-> ~initOK, exists |-> initOK, ranInit |-> TRUE, mkdir |-> TRUE]

\* ConfigurePrivateNetwork: only writing a non-empty swarm key can fail; the
\* bootstrap commands' failures are logged.
ConfigurePrivateNetworkErr(swarmKey, bootstrapPeers, writeOK) ==
    swarmKey # "" /\ ~writeOK

\* The bootstrap list after the `bootstrap add` commands: the peers whose
\* command succeeded are in it, a failed command is logged.
RECURSIVE BootstrapAdd(_, _, _)
BootstrapAdd(list, peers, addOK) ==
    IF peers = <<>> THEN list
    ELSE BootstrapAdd(IF Head(peers) \in addOK THEN list \cup {Head(peers)} ELSE list,
                      Tail(peers), addOK)

\* ConfigurePrivateNetwork: the swarm key file is written when a key is given;
\* when peers are given, `bootstrap rm --all` and one `bootstrap add` per peer
\* run, and the failure of any of them is logged. rmOK and addOK say which
\* commands succeed.
ConfigurePrivateNetworkResult(cfg, swarmKey, bootstrapPeers, writeOK, rmOK, addOK) ==
    IF ConfigurePrivateNetworkErr(swarmKey, bootstrapPeers, writeOK)
    THEN [err |-> TRUE, cfg |-> cfg]
    ELSE [err |-> FALSE,
          cfg |-> [swarmKey |-> IF swarmKey # "" THEN swarmKey ELSE cfg.swarmKey,
                   bootstrap |-> IF Len(bootstrapPeers) > 0
                                 THEN BootstrapAdd(IF rmOK THEN {} ELSE cfg.bootstrap,
                                                   bootstrapPeers, addOK)
                                 ELSE cfg.bootstrap]]

\* The exec.Cmd handles StartDaemon creates, in the order of the launches.
ProcessNames == << "p1", "p2", "p3", "p4" >>

\* StartDaemon's liveness probe, Process.Signal(os.Signal(nil)): a nil signal
\* is no syscall.Signal, so the call returns an error whatever the process does.
SignalNilErr(daemonCmd) == TRUE

\* StartDaemon returns at once when a started process answers the probe.
DaemonAlreadyRunning(daemonCmd) ==
    daemonCmd # "nil" /\ ~SignalNilErr(daemonCmd)

(***************************************************************************)
(* Agent.Start: the startup steps                                          *)
(***************************************************************************)

\* A Start that logs InitializeRepo's error instead of returning it.
AfterStepSkippingRepoErr(step, err, next) ==
    IF err /\ step # "InitializeRepo" THEN "Aborted" ELSE next

\* Where Start goes once a startup step has returned: on to the next step, or
\* out with the wrapped error.
AfterStep(step, err, next) == IF err THEN "Aborted" ELSE next

StepCall(step) == steps' = Append(steps, step)

StepReturn(step, err, next, msg) ==
    /\ failedStep' = IF err THEN step ELSE failedStep
    /\ pc' = AfterStep(step, err, next)
    /\ startErr' = IF pc' = "Aborted" THEN msg ELSE startErr

EnsureInstalled ==
    /\ pc = "EnsureInstalled"
    /\ \E statOK, lookPathOK \in BOOLEAN :
         LET r == EnsureInstalledResult(mgr.binaryPath, statOK, lookPathOK) IN
           /\ mgr' = [mgr EXCEPT !.binaryPath = r.binaryPath]
           /\ StepCall("EnsureInstalled")
           /\ StepReturn("EnsureInstalled", r.err, "InitializeRepo", "failed to setup IPFS")
    /\ UNCHANGED << cancelled, agentVars, repoExists, watcher, rpcVars, cp, hbVars, taskVars, stopRet, apiVars, envVars >>

\* exec.CommandContext refuses to start a command once ctx is done.
InitializeRepo ==
    /\ pc = "InitializeRepo"
    /\ \E mkdirOK, initOK \in BOOLEAN :
         LET r == InitializeRepoResult(repoExists, mkdirOK, initOK /\ ~cancelled) IN
           /\ repoExists' = r.exists
           /\ StepCall("InitializeRepo")
           /\ StepReturn("InitializeRepo", r.err, "ConfigurePrivateNetwork", "failed to setup IPFS")
    /\ UNCHANGED << cancelled, agentVars, mgr, watcher, rpcVars, cp, hbVars, taskVars, stopRet, apiVars, envVars >>

\* setupIPFS passes an empty swarm key and no bootstrap peers.
ConfigurePrivateNetwork ==
    /\ pc = "ConfigurePrivateNetwork"
    /\ \E writeOK \in BOOLEAN :
         LET r == ConfigurePrivateNetworkResult(netcfg, "", <<>>, writeOK, FALSE, {}) IN
           /\ netcfg' = r.cfg
           /\ StepCall("ConfigurePrivateNetwork")
           /\ StepReturn("ConfigurePrivateNetwork", r.err, "StartDaemon", "failed to setup IPFS")
    /\ UNCHANGED << cancelled, agentVars, mgrVars, rpcVars, cp, hbVars, taskVars, stopRet, apiVars, mainVars >>

StartDaemon ==
    /\ pc = "StartDaemon"
    /\ \E startOK \in BOOLEAN :
         LET running == DaemonAlreadyRunning(mgr.daemonCmd)
             err == ~running /\ ~(startOK /\ ~cancelled)
             launched == ~running /\ ~err IN
           /\ mgr' = IF launched
                     THEN [mgr EXCEPT !.daemonCmd = ProcessNames[1], !.daemonReady = FALSE]
                     ELSE mgr
           /\ watcher' = IF launched THEN "polling" ELSE watcher
           /\ StepCall("StartDaemon")
           /\ StepReturn("StartDaemon", err, "GetPeerInfo", "failed to setup IPFS")
    /\ UNCHANGED << cancelled, agentVars, repoExists, rpcVars, cp, hbVars, taskVars, stopRet, apiVars, envVars >>

\* waitForDaemon: a Version probe answered on a tick marks the daemon ready.
waitForDaemonReady ==
    /\ watcher = "polling"
    /\ ~cancelled
    /\ watcher' = "done"
    /\ mgr' = [mgr EXCEPT !.daemonReady = TRUE, !.ipfsClient = "client"]
    /\ UNCHANGED << pc, startErr, steps, failedStep, cancelled, agentVars, repoExists,
                    rpcVars, cp, hbVars, taskVars, stopRet, apiVars, envVars >>

\* A waitForDaemon that gives the daemon up on its timeout.
waitForDaemonOnTimeoutStopping(m) == [m EXCEPT !.daemonCmd = "nil", !.daemonReady = FALSE]

\* waitForDaemon on its 30 s timeout: the manager after the error is logged.
waitForDaemonOnTimeout(m) == m

\* waitForDaemon: the 30 s timeout only logs.
waitForDaemonTimeout ==
    /\ watcher = "polling"
    /\ watcher' = "done"
    /\ mgr' = waitForDaemonOnTimeout(mgr)
    /\ UNCHANGED << pc, startErr, steps, failedStep, cancelled, agentVars, repoExists,
                    rpcVars, cp, hbVars, taskVars, stopRet, apiVars, envVars >>

waitForDaemonCancelled ==
    /\ watcher = "polling"
    /\ cancelled
    /\ watcher' = "done"
    /\ UNCHANGED << pc, startErr, steps, failedStep, cancelled, agentVars, mgr, repoExists,
                    rpcVars, cp, hbVars, taskVars, stopRet, apiVars, envVars >>

\* GetPeerInfo up to its readiness check.
GetPeerInfoEnter ==
    /\ pc = "GetPeerInfo"
    /\ StepCall("GetPeerInfo")
    /\ mgr' = [mgr EXCEPT !.ipfsClient = "client"]
    /\ pc' = IF mgr.daemonReady THEN "GetPeerInfoID" ELSE "GetPeerInfoWait"
    /\ UNCHANGED << startErr, failedStep, cancelled, agentVars, repoExists, watcher,
                    rpcVars, cp, hbVars, taskVars, stopRet, apiVars, envVars >>

\* GetPeerInfo's wait loop: a Version probe answered on a tick.
GetPeerInfoProbeOK ==
    /\ pc = "GetPeerInfoWait"
    /\ ~cancelled
    /\ mgr' = [mgr EXCEPT !.daemonReady = TRUE]
    /\ pc' = "GetPeerInfoID"
    /\ UNCHANGED << startErr, steps, failedStep, cancelled, agentVars, repoExists, watcher,
                    rpcVars, cp, hbVars, taskVars, stopRet, apiVars, envVars >>

\* A wait loop whose timeout case only leaves the select, as a bare `break` does.
waitLoopTimeoutBreaksSelect == "continue"

\* GetPeerInfo's wait loop on its 30 s timeout: it returns "IPFS daemon not ready".
waitLoopOnTimeout == "return"

\* GetPeerInfo's wait loop: the 30 s timeout. A Version probe that fails leaves
\* the loop where it is.
GetPeerInfoTimeout ==
    /\ pc = "GetPeerInfoWait"
    /\ IF waitLoopOnTimeout = "return"
       THEN StepReturn("GetPeerInfo", TRUE, "NewClient", "failed to get peer info")
       ELSE UNCHANGED << pc, startErr, failedStep >>
    /\ UNCHANGED << steps, cancelled, agentVars, mgrVars, rpcVars, cp, hbVars, taskVars, stopRet, apiVars, envVars >>

\* GetPeerInfo's wait loop: ctx.Done().
GetPeerInfoCancelled ==
    /\ pc = "GetPeerInfoWait"
    /\ cancelled
    /\ StepReturn("GetPeerInfo", TRUE, "NewClient", "failed to get peer info")
    /\ UNCHANGED << steps, cancelled, agentVars, mgrVars, rpcVars, cp, hbVars, taskVars, stopRet, apiVars, envVars >>

\* GetPeerInfo's ID request, and Start storing the peer id.
GetPeerInfoID ==
    /\ pc = "GetPeerInfoID"
    /\ \E idOK \in BOOLEAN :
         LET err == ~(idOK /\ ~cancelled) IN
           /\ peerID' = IF err THEN peerID ELSE "peer1"
           /\ StepReturn("GetPeerInfo", err, "NewClient", "failed to get peer info")
    /\ UNCHANGED << steps, cancelled, nodeID, conn, mgrVars, rpcVars, cp, hbVars, taskVars, stopRet, apiVars, envVars >>

\* grpc.NewClient, and the clients built on the connection.
NewClient ==
    /\ pc = "NewClient"
    /\ \E ok \in BOOLEAN :
         /\ conn' = IF ok THEN "open" ELSE conn
         /\ StepCall("NewClient")
         /\ StepReturn("NewClient", ~ok, "Register", "failed to connect to coordinator")
    /\ UNCHANGED << cancelled, nodeID, peerID, mgrVars, rpcVars, cp, hbVars, taskVars, stopRet, apiVars, envVars >>

(***************************************************************************)
(* Coordinator calls                                                       *)
(***************************************************************************)

\* A processTask that reports on the context it was given, with no metadata.
OutgoingMetadataBareReport(op) ==
    IF op = "ReportPinStatus" THEN {} ELSE {<<"authorization", BearerOf(AuthToken)>>}

\* The metadata of the outgoing context each call site builds before its call:
\* register, connectToPeers, heartbeatLoop, taskLoop and processTask each attach
\* the authorization entry made from the configured token.
OutgoingMetadata(op) == {<<"authorization", BearerOf(AuthToken)>>}

\* A request as the coordinator sees it: the RPC, the node id in it and the
\* metadata attached to the call.
Request(op, id) == [op |-> op, nodeID |-> id, auth |-> OutgoingMetadata(op)]

Issue(op, id) ==
    /\ issued' = [issued EXCEPT ![op] = @ + 1]
    /\ rpcs' = rpcs \cup {Request(op, id)}

\* A call on a cancelled context returns an error.
RegisterAnswers == IF cancelled THEN {r \in RegisterResponses : r.err} ELSE RegisterResponses

\* A register that checks the transport error only.
registerErrIgnoringSuccess(resp) == resp.err

\* register: a transport error or success=false is returned as an error.
registerErr(resp) == resp.err \/ ~resp.success

\* A register that stores the node id before it looks at Success.
registerNodeIDBeforeCheck(resp, old) == IF resp.err THEN old ELSE resp.nodeId

\* register: the node id is stored only past both checks.
registerNodeID(resp, old) == IF registerErr(resp) THEN old ELSE resp.nodeId

\* A Start that closes its connection before it returns an error.
connAfterAbortClosed(c) == "closed"

\* Start's error returns: the connection is left as it is.
connAfterAbort(c) == c

Register ==
    /\ pc = "Register"
    /\ \E resp \in RegisterAnswers :
         /\ Issue("Register", "")
         /\ regResps' = Append(regResps, resp)
         /\ nodeID' = registerNodeID(resp, nodeID)
         /\ conn' = IF registerErr(resp) THEN connAfterAbort(conn) ELSE conn
         /\ StepCall("Register")
         /\ StepReturn("Register", registerErr(resp), "ConnectToPeers",
                       "initial registration failed")
    /\ UNCHANGED << cancelled, peerID, mgrVars, cp, hbVars, taskVars, stopRet, apiVars, envVars >>

\* A call on a cancelled context returns an error.
GetPeersAnswers == IF cancelled THEN {r \in GetPeersResponses : r.err} ELSE GetPeersResponses

\* connectToPeers' nested loops: the first address at or after address j of
\* peer i, or <<Len(peers) + 1, 1>> when the loops are over.
RECURSIVE LoopPosition(_, _, _)
LoopPosition(peers, i, j) ==
    IF i > Len(peers) THEN <<i, 1>>
    ELSE IF j <= Len(peers[i]) THEN <<i, j>>
    ELSE LoopPosition(peers, i + 1, 1)

\* A connectToPeers whose failure branch lacks the `continue`.
connectedAfterNoContinue(connected, err) == connected + 1

\* connectToPeers: a failed connect is logged and skipped, a successful one counted.
connectedAfter(connected, err) == IF err THEN connected ELSE connected + 1

\* A Start that registers again when connectToPeers returned an error.
AfterConnectToPeersRegisteringAgain(ret) == IF ret = "err" THEN "Register" ELSE "StartLoops"

\* A Start that returns connectToPeers' error like the errors of the steps before it.
AfterConnectToPeersReturningErr(ret) == IF ret = "err" THEN "Aborted" ELSE "StartLoops"

\* Start after connectToPeers: its error is logged as a warning, and the
\* background workers come next.
AfterConnectToPeers(ret) == "StartLoops"

\* connectToPeers: the GetPeers call; a transport error or an error field
\* returns an error, which Start only logs.
GetPeers ==
    /\ pc = "ConnectToPeers"
    /\ \E resp \in GetPeersAnswers :
         LET failed == resp.err \/ resp.error # ""
             at == LoopPosition(resp.peers, 1, 1) IN
           /\ Issue("GetPeers", nodeID)
           /\ cp' = IF failed
                    THEN [NoFrame EXCEPT !.ret = "err"]
                    ELSE [NoFrame EXCEPT !.got = TRUE, !.peers = resp.peers,
                                         !.i = at[1], !.j = at[2]]
           /\ pc' = IF failed THEN AfterConnectToPeers("err") ELSE "ConnectLoop"
    /\ startErr' = IF pc' = "Aborted" THEN "failed to connect to peers" ELSE startErr
    /\ UNCHANGED << steps, failedStep, cancelled, agentVars, mgrVars, regResps,
                    hbVars, taskVars, stopRet, apiVars, envVars >>

\* connectToPeers: one ConnectToPeer command (`ipfs swarm connect`), which
\* cannot start once ctx is done.
ConnectToPeer ==
    /\ pc = "ConnectLoop"
    /\ cp.i <= Len(cp.peers)
    /\ \E ok \in BOOLEAN :
         LET err == ~(ok /\ ~cancelled)
             at == LoopPosition(cp.peers, cp.i, cp.j + 1) IN
           cp' = [cp EXCEPT !.attempted = Append(@, cp.peers[cp.i][cp.j]),
                            !.connected = connectedAfter(@, err),
                            !.failed = IF err THEN @ + 1 ELSE @,
                            !.i = at[1], !.j = at[2]]
    /\ UNCHANGED << pc, startErr, steps, failedStep, cancelled, agentVars, mgrVars, rpcVars,
                    hbVars, taskVars, stopRet, apiVars, envVars >>

\* connectToPeers: past the loops it logs the counts and returns nil.
connectToPeersReturn ==
    /\ pc = "ConnectLoop"
    /\ cp.i > Len(cp.peers)
    /\ cp' = [cp EXCEPT !.ret = "nil"]
    /\ pc' = AfterConnectToPeers("nil")
    /\ UNCHANGED << startErr, steps, failedStep, cancelled, agentVars, mgrVars, rpcVars,
                    hbVars, taskVars, stopRet, apiVars, envVars >>

\* Start logs connectToPeers' error, if any, and starts both loops.
StartLoops ==
    /\ pc = "StartLoops"
    /\ cp' = NoFrame
    /\ hbLoop' = "waiting"
    /\ taskLoop' = "waiting"
    /\ pc' = "Running"
    /\ UNCHANGED << startErr, steps, failedStep, cancelled, agentVars, mgrVars, rpcVars,
                    hbTicks, hbOKs, polls, handlers, reported, stopRet, apiVars, envVars >>

(***************************************************************************)
(* heartbeatLoop                                                           *)
(***************************************************************************)

\* A heartbeatLoop that returns on a failed Heartbeat call.
heartbeatAfterReturnOnErr(err) == IF err THEN "returned" ELSE "waiting"

\* heartbeatLoop after its Heartbeat call: an error is logged, and the loop
\* goes back to its select.
heartbeatAfter(err) == "waiting"

\* The select takes a tick of ticker.C: RepoStat, which fails on a cancelled
\* context as every call does, then the Heartbeat call with the storage
\* figure.
heartbeatTick ==
    /\ hbLoop = "waiting"
    /\ hbTicks < MaxHeartbeats
    /\ \E ok \in BOOLEAN :
         LET statErr == repoStat.err \/ cancelled
             err == ~(ok /\ ~cancelled)
         IN
           /\ hbSent' = << storageUsed(statErr, repoStat.RepoSize) >>
           /\ Issue("Heartbeat", nodeID)
           /\ hbTicks' = hbTicks + 1
           /\ hbOKs' = IF err THEN hbOKs ELSE hbOKs + 1
           /\ hbLoop' = heartbeatAfter(err)
    /\ UNCHANGED << pc, startErr, steps, failedStep, cancelled, agentVars, mgrVars, regResps,
                    cp, taskVars, stopRet, apiVars, cfgVars, main, repoStat, reportLog,
                    netcfg >>

\* A loop whose select has no ctx.Done() case.
AfterDoneContinuing(loop) == loop

\* heartbeatLoop and taskLoop: the ctx.Done() case of the select returns.
AfterDone(loop) == "returned"

\* The select takes ctx.Done(): the loop returns and its ticker is stopped.
heartbeatReturn ==
    /\ hbLoop = "waiting"
    /\ cancelled
    /\ hbLoop' = AfterDone(hbLoop)
    /\ UNCHANGED << pc, startErr, steps, failedStep, cancelled, agentVars, mgrVars, rpcVars,
                    cp, hbTicks, hbOKs, taskVars, stopRet, apiVars, envVars >>

(***************************************************************************)
(* taskLoop and processTask                                                *)
(***************************************************************************)

Statuses == {"PINNED", "FAILED"}

\* A processTask that reports before it pins.
NewHandlerReportFirst(task) ==
    [task |-> task, pc |-> "report", pinResolved |-> FALSE, pinErr |-> FALSE,
     status |-> "PINNED", reports |-> 0]

\* processTask as the goroutine starts: the Pin call comes first.
NewHandler(task) ==
    [task |-> task, pc |-> "pin", pinResolved |-> FALSE, pinErr |-> FALSE,
     status |-> "", reports |-> 0]

\* taskLoop: one `go processTask` per task of the response, in order.
RECURSIVE Dispatch(_, _)
Dispatch(running, tasks) ==
    IF tasks = <<>> THEN running
    ELSE Dispatch(running (+) SetToBag({NewHandler(Head(tasks))}), Tail(tasks))

\* A taskLoop that calls processTask in its own goroutine.
processTaskInline == "call"

\* taskLoop starts processTask with a go statement.
processTaskStart == "go"

\* taskLoop is inside a processTask call of its own: never, as it starts
\* each one as a goroutine.
taskLoopBusy ==
    processTaskStart = "call" /\ \E h \in BagToSet(handlers) : h.pc # "done"

\* The log, when on, counts each task a GetPinTasks response delivered.
RECURSIVE LogDelivered(_, _)
LogDelivered(log, tasks) ==
    IF ~log.on \/ tasks = <<>> THEN log
    ELSE LogDelivered([log EXCEPT !.delivered[Head(tasks)] = @ + 1], Tail(tasks))

\* The log, when on, keeps each ReportPinStatus call that returned an error:
\* its task, and the polls taken before it.
LogReport(log, task, err, polled) ==
    IF log.on /\ err
    THEN [log EXCEPT !.failed = Append(@, [task |-> task, polls |-> polled])]
    ELSE log

\* The log, when on, keeps the number of each poll that returned an error.
LogPoll(log, err, poll) ==
    IF log.on /\ err THEN [log EXCEPT !.pollErrs = Append(@, poll)] ELSE log

\* A taskLoop that gives up at the first failed poll.
taskLoopAfterReturningOnErr(err) == IF err THEN "returned" ELSE "waiting"

\* taskLoop: a failed GetPinTasks is logged and the loop continues with the
\* next iteration, as it does after the dispatch of a response.
taskLoopAfter(err) == "waiting"

\* A call on a cancelled context returns an error.
GetPinTasksResponses ==
    { [err |-> TRUE, tasks |-> <<>>] } \cup { [err |-> FALSE, tasks |-> l] : l \in TaskLists }
GetPinTasksAnswers ==
    IF cancelled THEN {r \in GetPinTasksResponses : r.err} ELSE GetPinTasksResponses

\* The select takes a tick of ticker.C: GetPinTasks; on an error the loop
\* continues, otherwise every returned task gets a handler of its own.
taskTick ==
    /\ taskLoop = "waiting"
    /\ ~taskLoopBusy
    /\ polls < MaxPolls
    /\ \E resp \in GetPinTasksAnswers :
         /\ BagCardinality(handlers) + Len(resp.tasks) <= MaxHandlers
         /\ Issue("GetPinTasks", nodeID)
         /\ handlers' = IF resp.err THEN handlers ELSE Dispatch(handlers, resp.tasks)
         /\ reportLog' = LogPoll(LogDelivered(reportLog, resp.tasks), resp.err, polls + 1)
         /\ taskLoop' = taskLoopAfter(resp.err)
    /\ polls' = polls + 1
    /\ UNCHANGED << pc, startErr, steps, failedStep, cancelled, agentVars, mgrVars, regResps,
                    cp, hbVars, reported, stopRet, apiVars, cfgVars, main, repoStat,
                    hbSent, netcfg >>

taskLoopReturn ==
    /\ taskLoop = "waiting"
    /\ ~taskLoopBusy
    /\ cancelled
    /\ taskLoop' = AfterDone(taskLoop)
    /\ UNCHANGED << pc, startErr, steps, failedStep, cancelled, agentVars, mgrVars, rpcVars,
                    cp, hbVars, polls, handlers, reported, stopRet, apiVars, envVars >>

\* A processTask that never switches the status to FAILED.
StatusForAlwaysPinned(pinErr) == "PINNED"

\* processTask: the status reported for a pin outcome.
StatusFor(pinErr) == IF pinErr THEN "FAILED" ELSE "PINNED"

\* processTask once Pin has returned.
AfterPin(h, err) ==
    [h EXCEPT !.pc = "report", !.pinResolved = TRUE, !.pinErr = err,
              !.status = StatusFor(err)]

\* A processTask that calls ReportPinStatus again when the call failed.
AfterReportRetrying(h, err) ==
    IF err THEN [h EXCEPT !.reports = @ + 1] ELSE [h EXCEPT !.pc = "done", !.reports = @ + 1]

\* processTask once ReportPinStatus has returned: its error is logged, and
\* the goroutine ends.
AfterReport(h, err) == [h EXCEPT !.pc = "done", !.reports = @ + 1]

Replace(running, h, g) == (running (-) SetToBag({h})) (+) SetToBag({g})

\* The handler's Pin request returns; a request on a cancelled context fails.
PinReturn ==
    /\ \E h \in BagToSet(handlers) :
         /\ h.pc = "pin"
         /\ \E ok \in BOOLEAN :
              handlers' = Replace(handlers, h, AfterPin(h, ~(ok /\ ~cancelled)))
    /\ UNCHANGED << pc, startErr, steps, failedStep, cancelled, agentVars, mgrVars, rpcVars,
                    cp, hbVars, taskLoop, polls, reported, stopRet, apiVars, envVars >>

\* The handler's ReportPinStatus call.
ReportPinStatus ==
    /\ \E h \in BagToSet(handlers) :
         /\ h.pc = "report"
         /\ \E ok \in BOOLEAN :
              /\ Issue("ReportPinStatus", nodeID)
              /\ reported' = [reported EXCEPT ![h.task][h.status] = @ + 1]
              /\ handlers' = Replace(handlers, h, AfterReport(h, ~(ok /\ ~cancelled)))
              /\ reportLog' = LogReport(reportLog, h.task, ~(ok /\ ~cancelled), polls)
    /\ UNCHANGED << pc, startErr, steps, failedStep, cancelled, agentVars, mgrVars, regResps,
                    cp, hbVars, taskLoop, polls, stopRet, apiVars, cfgVars, main, repoStat,
                    hbSent, netcfg >>

(***************************************************************************)
(* Shutdown                                                                *)
(***************************************************************************)

\* The context Start runs under is cancelled.
Cancel ==
    /\ ~cancelled
    /\ cancelled' = TRUE
    /\ UNCHANGED << pc, startErr, steps, failedStep, agentVars, mgrVars, rpcVars, cp,
                    hbVars, taskVars, stopRet, apiVars, envVars >>

\* What StopDaemon can return on a context that is already done, with a daemon
\* StartDaemon has launched: nil when the process is seen to exit cleanly, an
\* error from a failed signal, a failed exit or ctx.Err().
StopDaemonReturns == {"nil", "err"}

\* A Start that returns StopDaemon's error instead of logging it.
AfterStopDaemonReturningErr(ret) == IF ret = "err" THEN "Aborted" ELSE "Close"

\* Start after StopDaemon: its error is logged, and conn.Close() comes next.
AfterStopDaemon(ret) == "Close"

\* Start's `<-ctx.Done()`, then StopDaemon on the cancelled context.
StopDaemon ==
    /\ pc = "Running"
    /\ cancelled
    /\ \E ret \in StopDaemonReturns :
         /\ stopRet' = ret
         /\ pc' = AfterStopDaemon(ret)
    /\ startErr' = IF pc' = "Aborted" THEN "failed to stop IPFS daemon" ELSE startErr
    /\ UNCHANGED << steps, failedStep, cancelled, agentVars, mgrVars, rpcVars, cp,
                    hbVars, taskVars, apiVars, envVars >>

\* Start returns what conn.Close() returns: nil for a connection closed once.
Close ==
    /\ pc = "Close"
    /\ conn' = "closed"
    /\ pc' = "Done"
    /\ startErr' = "nil"
    /\ UNCHANGED << steps, failedStep, cancelled, nodeID, peerID, mgrVars, rpcVars, cp,
                    hbVars, taskVars, stopRet, apiVars, envVars >>

Next ==
    \/ EnsureInstalled
    \/ InitializeRepo
    \/ ConfigurePrivateNetwork
    \/ StartDaemon
    \/ waitForDaemonReady
    \/ waitForDaemonTimeout
    \/ waitForDaemonCancelled
    \/ GetPeerInfoEnter
    \/ GetPeerInfoProbeOK
    \/ GetPeerInfoTimeout
    \/ GetPeerInfoCancelled
    \/ GetPeerInfoID
    \/ NewClient
    \/ Register
    \/ GetPeers
    \/ ConnectToPeer
    \/ connectToPeersReturn
    \/ StartLoops
    \/ heartbeatTick
    \/ heartbeatReturn
    \/ taskTick
    \/ taskLoopReturn
    \/ PinReturn
    \/ ReportPinStatus
    \/ Cancel
    \/ StopDaemon
    \/ Close

Spec == Init /\ [][Next]_vars

\* The steps of the goroutine running Start that do not wait for the daemon's
\* API: every call Start makes returns, the 30 s timer of GetPeerInfo fires,
\* and `<-ctx.Done()` returns once the context is cancelled. Whether a Version
\* probe is ever answered (GetPeerInfoProbeOK) is up to the daemon.
StartSteps ==
    \/ EnsureInstalled
    \/ InitializeRepo
    \/ ConfigurePrivateNetwork
    \/ StartDaemon
    \/ GetPeerInfoEnter
    \/ GetPeerInfoTimeout
    \/ GetPeerInfoCancelled
    \/ GetPeerInfoID
    \/ NewClient
    \/ Register
    \/ GetPeers
    \/ ConnectToPeer
    \/ connectToPeersReturn
    \/ StartLoops
    \/ StopDaemon
    \/ Close

\* The goroutine running Start on its own, with the daemon watcher and the
\* cancellation: heartbeatLoop, taskLoop and processTask write nothing Start
\* reads, so their steps are left out, and Start's goroutine is scheduled fairly.
StartNext ==
    \/ StartSteps
    \/ GetPeerInfoProbeOK
    \/ waitForDaemonReady
    \/ waitForDaemonTimeout
    \/ waitForDaemonCancelled
    \/ Cancel

StartSpec == Init /\ [][StartNext]_vars /\ WF_vars(StartSteps)

(***************************************************************************)
(* IPFSManager under any caller: the methods called in any order on one    *)
(* context, with the daemon processes and the waitForDaemon goroutines     *)
(***************************************************************************)

\* Calls the caller makes, and daemon processes launched, in one run.
MaxCalls == 3
MaxLaunches == 2

\* What Start's own run leaves alone while another caller drives the manager.
startVars == << pc, startErr, steps, failedStep, agentVars, watcher, rpcVars, cp,
                hbVars, taskVars, stopRet >>

\* NewIPFSManager, with no Start running.
ManagerInit ==
    /\ pc = "NotStarted"
    /\ startErr = "running"
    /\ steps = <<>>
    /\ failedStep = ""
    /\ cancelled = FALSE
    /\ nodeID = ""
    /\ peerID = ""
    /\ conn = "nil"
    /\ mgr = [binaryPath |-> "", ipfsClient |-> "nil", daemonCmd |-> "nil",
              daemonReady |-> FALSE]
    /\ repoExists \in BOOLEAN
    /\ watcher = "none"
    /\ regResps = <<>>
    /\ issued = [op \in CoordinatorOps |-> 0]
    /\ rpcs = {}
    /\ cp = NoFrame
    /\ hbLoop = "notStarted"
    /\ hbTicks = 0
    /\ hbOKs = 0
    /\ taskLoop = "notStarted"
    /\ polls = 0
    /\ handlers = EmptyBag
    /\ reported = [t \in TaskIDs |-> [s \in {"PINNED", "FAILED"} |-> 0]]
    /\ stopRet = "none"
    /\ caller = Idle
    /\ procs = <<>>
    /\ watchers = <<>>
    /\ seenReady = FALSE
    /\ hist = <<>>
    /\ main = "none"
    /\ repoStat = EmptyRepoStat
    /\ hbSent = <<>>
    /\ netcfg = InitialNetcfg
    /\ reportLog = NoLog
    /\ configSource = SourcesRead
    /\ config = << LoadedCapacityGB(DefaultSource) >>

\* The process behind an exec.Cmd handle.
ProcessOf(cmd) == CHOOSE k \in 1..Len(ProcessNames) : ProcessNames[k] = cmd

\* The control API can answer only while a launched daemon runs.
APIResponsive == \E k \in 1..Len(procs) : procs[k] = "running"

\* A completed call: the method, what it returned and what it did.
Returned(op, ret) ==
    [op |-> op, ret |-> ret, existed |-> FALSE, ranInit |-> FALSE, mkdir |-> FALSE,
     repoKept |-> TRUE, alive |-> FALSE, launched |-> FALSE, kept |-> TRUE,
     via |-> "", procAfter |-> "", seen |-> FALSE, signalled |-> FALSE,
     peers |-> <<>>, bootstrap |-> {}]

ErrOrNil(err) == IF err THEN "err" ELSE "nil"

\* InitializeRepo, from the stat of the config artifact to its return.
IPFSManager_InitializeRepo ==
    /\ caller = Idle
    /\ Len(hist) < MaxCalls
    /\ \E mkdirOK, initOK \in BOOLEAN :
         LET r == InitializeRepoResult(repoExists, mkdirOK, initOK /\ ~cancelled) IN
           /\ repoExists' = r.exists
           /\ hist' = Append(hist, [Returned("InitializeRepo", ErrOrNil(r.err)) EXCEPT
                                       !.existed = repoExists, !.ranInit = r.ranInit,
                                       !.mkdir = r.mkdir,
                                       !.repoKept = (r.exists = repoExists)])
    /\ UNCHANGED << startVars, envVars, cancelled, mgr, caller, procs, watchers, seenReady >>

\* StartDaemon: the liveness probe, cmd.Start, the two assignments and the
\* waitForDaemon goroutine. A command cannot start on a context that is done.
IPFSManager_StartDaemon ==
    /\ caller = Idle
    /\ Len(hist) < MaxCalls
    /\ \E startOK \in BOOLEAN :
         LET running == DaemonAlreadyRunning(mgr.daemonCmd)
             err == ~running /\ ~(startOK /\ ~cancelled)
             launched == ~running /\ ~err
             alive == mgr.daemonCmd # "nil" /\ procs[ProcessOf(mgr.daemonCmd)] = "running" IN
           /\ launched => Len(procs) < MaxLaunches
           /\ mgr' = IF launched
                     THEN [mgr EXCEPT !.daemonCmd = ProcessNames[Len(procs) + 1],
                                      !.daemonReady = FALSE]
                     ELSE mgr
           /\ procs' = IF launched THEN Append(procs, "running") ELSE procs
           /\ watchers' = IF launched THEN Append(watchers, "polling") ELSE watchers
           /\ seenReady' = IF launched THEN FALSE ELSE seenReady
           /\ hist' = Append(hist, [Returned("StartDaemon", ErrOrNil(err)) EXCEPT
                                       !.alive = alive, !.launched = launched,
                                       !.kept = (mgr' = mgr)])
    /\ UNCHANGED << startVars, envVars, cancelled, repoExists, caller >>

\* A daemon process exits on its own: a crash, or its answer to an interrupt.
processExits ==
    /\ \E k \in 1..Len(procs) :
         /\ procs[k] = "running"
         /\ procs' = [procs EXCEPT ![k] = "exited"]
    /\ UNCHANGED << startVars, envVars, cancelled, mgr, repoExists, caller, watchers, seenReady, hist >>

\* exec.CommandContext kills the process it started once its context is done.
commandContextKill ==
    /\ cancelled
    /\ \E k \in 1..Len(procs) :
         /\ procs[k] = "running"
         /\ procs' = [procs EXCEPT ![k] = "killed"]
    /\ UNCHANGED << startVars, envVars, cancelled, mgr, repoExists, caller, watchers, seenReady, hist >>

\* waitForDaemon: a tick whose Version probe is answered.
waitForDaemonProbe ==
    /\ ~cancelled
    /\ APIResponsive
    /\ \E k \in 1..Len(watchers) :
         /\ watchers[k] = "polling"
         /\ watchers' = [watchers EXCEPT ![k] = "probed"]
    /\ seenReady' = TRUE
    /\ UNCHANGED << startVars, envVars, cancelled, mgr, repoExists, caller, procs, hist >>

\* waitForDaemon: after the answered probe it marks the daemon ready and returns.
waitForDaemonMark ==
    /\ \E k \in 1..Len(watchers) :
         /\ watchers[k] = "probed"
         /\ watchers' = [watchers EXCEPT ![k] = "done"]
    /\ mgr' = [mgr EXCEPT !.daemonReady = TRUE, !.ipfsClient = "client"]
    /\ UNCHANGED << startVars, envVars, cancelled, repoExists, caller, procs, seenReady, hist >>

\* waitForDaemon: the 30 s timeout or ctx.Done(); it returns and writes nothing.
waitForDaemonGivesUp ==
    /\ \E k \in 1..Len(watchers) :
         /\ watchers[k] = "polling"
         /\ watchers' = [watchers EXCEPT ![k] = "done"]
    /\ mgr' = waitForDaemonOnTimeout(mgr)
    /\ UNCHANGED << startVars, envVars, cancelled, repoExists, caller, procs, seenReady, hist >>

\* A timeout branch that interrupts the process once more instead of killing it.
KillProcessInterruptsAgain(state) == state

\* Process.Kill ends a running process.
KillProcess(state) == IF state = "running" THEN "killed" ELSE state

\* A StopDaemon that reports a daemon that was never started as an error.
NoDaemonReturnErr(daemonCmd) == IF daemonCmd = "nil" THEN "err" ELSE "none"

\* StopDaemon's first check: with no command stored it returns nil at once;
\* "none" when it goes on. A stored command always has its Process.
NoDaemonReturn(daemonCmd) == IF daemonCmd = "nil" THEN "nil" ELSE "none"

\* StopDaemon up to its select: nothing to stop, or the interrupt, which the
\* platform or a finished process may refuse.
IPFSManager_StopDaemon ==
    /\ caller = Idle
    /\ Len(hist) < MaxCalls
    /\ IF NoDaemonReturn(mgr.daemonCmd) # "none"
       THEN /\ hist' = Append(hist, [Returned("StopDaemon", NoDaemonReturn(mgr.daemonCmd))
                                        EXCEPT !.via = "noDaemon"])
            /\ caller' = caller
       ELSE \E sigOK \in BOOLEAN :
              IF sigOK
              THEN /\ caller' = [op |-> "StopDaemon", at |-> "select"]
                   /\ hist' = hist
              ELSE /\ caller' = caller
                   /\ hist' = Append(hist, [Returned("StopDaemon", "err") EXCEPT
                                               !.via = "signal", !.signalled = TRUE,
                                               !.procAfter = procs[ProcessOf(mgr.daemonCmd)]])
    /\ UNCHANGED << startVars, envVars, cancelled, mgr, repoExists, procs, watchers, seenReady >>

\* StopDaemon's select takes `done`: Wait has returned the process' exit.
IPFSManager_StopDaemonDone ==
    /\ caller = [op |-> "StopDaemon", at |-> "select"]
    /\ LET p == procs[ProcessOf(mgr.daemonCmd)] IN
         /\ p # "running"
         /\ \E ret \in (IF p = "exited" THEN {"nil", "err"} ELSE {"err"}) :
              hist' = Append(hist, [Returned("StopDaemon", ret) EXCEPT
                                       !.via = "done", !.signalled = TRUE,
                                       !.procAfter = p])
    /\ caller' = Idle
    /\ UNCHANGED << startVars, envVars, cancelled, mgr, repoExists, procs, watchers, seenReady >>

\* StopDaemon's select takes ctx.Done(): it returns ctx.Err().
IPFSManager_StopDaemonCancelled ==
    /\ caller = [op |-> "StopDaemon", at |-> "select"]
    /\ cancelled
    /\ hist' = Append(hist, [Returned("StopDaemon", "err") EXCEPT
                                !.via = "ctx", !.signalled = TRUE,
                                !.procAfter = procs[ProcessOf(mgr.daemonCmd)]])
    /\ caller' = Idle
    /\ UNCHANGED << startVars, envVars, cancelled, mgr, repoExists, procs, watchers, seenReady >>

\* A select that can take its timer although ctx.Done() was ready before it.
TimerCanFireAlways(ctxDone) == TRUE

\* StopDaemon's select blocks until its first case is ready and takes it:
\* the 10 s timer is taken only while the context is not done.
TimerCanFire(ctxDone) == ~ctxDone

\* StopDaemon's select takes the 10 s timer: it returns what Process.Kill returns.
IPFSManager_StopDaemonTimeout ==
    /\ caller = [op |-> "StopDaemon", at |-> "select"]
    /\ TimerCanFire(cancelled)
    /\ LET k == ProcessOf(mgr.daemonCmd) IN
         /\ procs' = [procs EXCEPT ![k] = KillProcess(@)]
         /\ hist' = Append(hist, [Returned("StopDaemon", ErrOrNil(procs[k] # "running")) EXCEPT
                                     !.via = "timeout", !.signalled = TRUE,
                                     !.procAfter = procs'[k]])
    /\ caller' = Idle
    /\ UNCHANGED << startVars, envVars, cancelled, mgr, repoExists, watchers, seenReady >>

\* GetPeerInfo up to its readiness check.
IPFSManager_GetPeerInfo ==
    /\ caller = Idle
    /\ Len(hist) < MaxCalls
    /\ mgr' = [mgr EXCEPT !.ipfsClient = "client"]
    /\ caller' = [op |-> "GetPeerInfo", at |-> IF mgr.daemonReady THEN "ID" ELSE "wait"]
    /\ UNCHANGED << startVars, envVars, cancelled, repoExists, procs, watchers, seenReady, hist >>

\* GetPeerInfo's wait loop: a Version probe answered on a tick.
IPFSManager_GetPeerInfoProbeOK ==
    /\ caller = [op |-> "GetPeerInfo", at |-> "wait"]
    /\ ~cancelled
    /\ APIResponsive
    /\ mgr' = [mgr EXCEPT !.daemonReady = TRUE]
    /\ seenReady' = TRUE
    /\ caller' = [op |-> "GetPeerInfo", at |-> "ID"]
    /\ UNCHANGED << startVars, envVars, cancelled, repoExists, procs, watchers, hist >>

\* GetPeerInfo's wait loop: the 30 s timeout.
IPFSManager_GetPeerInfoTimeout ==
    /\ caller = [op |-> "GetPeerInfo", at |-> "wait"]
    /\ IF waitLoopOnTimeout = "return"
       THEN /\ hist' = Append(hist, [Returned("GetPeerInfo", "err") EXCEPT !.via = "timeout"])
            /\ caller' = Idle
       ELSE UNCHANGED << hist, caller >>
    /\ UNCHANGED << startVars, envVars, cancelled, mgr, repoExists, procs, watchers, seenReady >>

\* GetPeerInfo's wait loop: ctx.Done().
IPFSManager_GetPeerInfoCancelled ==
    /\ caller = [op |-> "GetPeerInfo", at |-> "wait"]
    /\ cancelled
    /\ hist' = Append(hist, [Returned("GetPeerInfo", "err") EXCEPT !.via = "ctx"])
    /\ caller' = Idle
    /\ UNCHANGED << startVars, envVars, cancelled, mgr, repoExists, procs, watchers, seenReady >>

\* GetPeerInfo's ID request: answered only by a running daemon, on a live context.
IPFSManager_GetPeerInfoID ==
    /\ caller = [op |-> "GetPeerInfo", at |-> "ID"]
    /\ \E idOK \in BOOLEAN :
         LET ok == idOK /\ ~cancelled /\ APIResponsive IN
           hist' = Append(hist, [Returned("GetPeerInfo", IF ok THEN "id" ELSE "err") EXCEPT
                                    !.via = "ID", !.seen = seenReady])
    /\ caller' = Idle
    /\ UNCHANGED << startVars, envVars, cancelled, mgr, repoExists, procs, watchers, seenReady >>

\* The steps that end a call in progress whatever the daemon does: the timers
\* fire, a done context is seen, and the ID request returns.
IPFSManagerReturns ==
    \/ IPFSManager_StopDaemonDone
    \/ IPFSManager_StopDaemonCancelled
    \/ IPFSManager_StopDaemonTimeout
    \/ IPFSManager_GetPeerInfoTimeout
    \/ IPFSManager_GetPeerInfoCancelled
    \/ IPFSManager_GetPeerInfoID

ManagerNext ==
    \/ IPFSManager_InitializeRepo
    \/ IPFSManager_StartDaemon
    \/ IPFSManager_StopDaemon
    \/ IPFSManager_GetPeerInfo
    \/ IPFSManager_GetPeerInfoProbeOK
    \/ IPFSManagerReturns
    \/ processExits
    \/ commandContextKill
    \/ waitForDaemonProbe
    \/ waitForDaemonMark
    \/ waitForDaemonGivesUp
    \/ Cancel

ManagerSpec == ManagerInit /\ [][ManagerNext]_vars /\ WF_vars(IPFSManagerReturns)

(***************************************************************************)
(* ConfigurePrivateNetwork under any caller, with any key and peer list     *)
(***************************************************************************)

\* The swarm keys and bootstrap peer lists a caller may pass.
SwarmKeys == {"", "key1"}
BootstrapLists == { <<>>, <<"b1">>, <<"b1", "b2">> }

\* ConfigurePrivateNetwork, from the swarm key to its return. A command
\* cannot run on a context that is done.
IPFSManager_ConfigurePrivateNetwork ==
    /\ caller = Idle
    /\ Len(hist) < MaxCalls
    /\ \E swarmKey \in SwarmKeys, bootstrapPeers \in BootstrapLists,
          writeOK, rmOK \in BOOLEAN, addOK \in SUBSET {"b1", "b2"} :
         LET r == ConfigurePrivateNetworkResult(netcfg, swarmKey, bootstrapPeers, writeOK,
                                                rmOK /\ ~cancelled,
                                                IF cancelled THEN {} ELSE addOK) IN
           /\ netcfg' = r.cfg
           /\ hist' = Append(hist, [Returned("ConfigurePrivateNetwork", ErrOrNil(r.err)) EXCEPT
                                       !.peers = bootstrapPeers,
                                       !.bootstrap = r.cfg.bootstrap])
    /\ UNCHANGED << startVars, mainVars, cancelled, mgr, repoExists, caller, procs, watchers,
                    seenReady >>

NetworkNext ==
    \/ IPFSManager_ConfigurePrivateNetwork
    \/ Cancel

NetworkSpec == ManagerInit /\ [][NetworkNext]_vars

(***************************************************************************)
(* The process: main, the application's start and stop hooks, and the      *)
(* goroutine the start hook launches to run Agent.Start                    *)
(***************************************************************************)

\* main before app.Start: no goroutine runs Start yet, the context is live.
ProcessInit ==
    /\ pc = "NotStarted"
    /\ startErr = "running"
    /\ steps = <<>>
    /\ failedStep = ""
    /\ cancelled = FALSE
    /\ nodeID = ""
    /\ peerID = ""
    /\ conn = "nil"
    /\ mgr = [binaryPath |-> "", ipfsClient |-> "nil", daemonCmd |-> "nil",
              daemonReady |-> FALSE]
    /\ repoExists \in BOOLEAN
    /\ watcher = "none"
    /\ regResps = <<>>
    /\ issued = [op \in CoordinatorOps |-> 0]
    /\ rpcs = {}
    /\ cp = NoFrame
    /\ hbLoop = "notStarted"
    /\ hbTicks = 0
    /\ hbOKs = 0
    /\ taskLoop = "notStarted"
    /\ polls = 0
    /\ handlers = EmptyBag
    /\ reported = [t \in TaskIDs |-> [s \in {"PINNED", "FAILED"} |-> 0]]
    /\ stopRet = "none"
    /\ caller = Idle
    /\ procs = <<>>
    /\ watchers = <<>>
    /\ seenReady = FALSE
    /\ hist = <<>>
    /\ main = "appStart"
    /\ repoStat = EmptyRepoStat
    /\ hbSent = <<>>
    /\ netcfg = InitialNetcfg
    /\ reportLog = NoLog
    /\ configSource = SourcesRead
    /\ config = << LoadedCapacityGB(DefaultSource) >>

\* What main's own steps leave alone.
agentRun == << pc, startErr, steps, failedStep, agentVars, mgrVars, rpcVars, cp,
               hbVars, taskVars, stopRet, apiVars, cfgVars, repoStat, hbSent, netcfg, reportLog >>

\* The process runs until main returns or os.Exit is called.
ProcessAlive == main \in {"waitSignal", "appStop", "deferred", "returning"}

\* app.Start(ctx) runs the OnStart hook, which starts a goroutine running
\* nodeAgent.Start on the context it was given, main's, and returns nil.
appStart ==
    /\ main = "appStart"
    /\ pc = "NotStarted"
    /\ pc' = "EnsureInstalled"
    /\ main' = "waitSignal"
    /\ UNCHANGED << startErr, steps, failedStep, cancelled, agentVars, mgrVars, rpcVars, cp,
                    hbVars, taskVars, stopRet, apiVars, cfgVars, repoStat, hbSent, netcfg, reportLog >>

\* main's `<-sigChan`: an interrupt or a termination signal was delivered.
shutdownSignal ==
    /\ main = "waitSignal"
    /\ main' = "appStop"
    /\ UNCHANGED << agentRun, cancelled >>

\* app.Stop(shutdownCtx) runs the OnStop hook, which logs and returns nil; an
\* error of app.Stop makes main exit with status 1.
appStop ==
    /\ main = "appStop"
    /\ \E err \in BOOLEAN : main' = IF err THEN "exited1" ELSE "deferred"
    /\ UNCHANGED << agentRun, cancelled >>

\* main's deferred calls run as it returns: shutdownCancel, then cancel.
mainDeferredCancel ==
    /\ main = "deferred"
    /\ cancelled' = TRUE
    /\ main' = "returning"
    /\ UNCHANGED agentRun

\* main returns, and the process ends with every goroutine in it.
mainReturns ==
    /\ main = "returning"
    /\ main' = "returned"
    /\ UNCHANGED << agentRun, cancelled >>

\* The goroutine of the OnStart hook: Start returned an error, os.Exit(1).
agentExit ==
    /\ ProcessAlive
    /\ pc = "Aborted"
    /\ main' = "exited1"
    /\ UNCHANGED << agentRun, cancelled >>

\* The goroutine running Start, and the daemon watcher, run while the process does.
agentSteps ==
    /\ ProcessAlive
    /\ \/ StartSteps
       \/ GetPeerInfoProbeOK
       \/ waitForDaemonReady
       \/ waitForDaemonTimeout
       \/ waitForDaemonCancelled

ProcessNext ==
    \/ appStart
    \/ shutdownSignal
    \/ appStop
    \/ mainDeferredCancel
    \/ mainReturns
    \/ agentExit
    \/ agentSteps

ProcessSpec == ProcessInit /\ [][ProcessNext]_vars

(***************************************************************************)
(* heartbeatLoop on its own, whatever RepoStat returns                     *)
(***************************************************************************)

\* The agent as a successful Start leaves it once both loops are started:
\* registered as "n1", the mesh step over, the daemon ready.
AfterStartLoops ==
    /\ pc = "Running"
    /\ startErr = "running"
    /\ steps = StartupOrder
    /\ failedStep = ""
    /\ cancelled = FALSE
    /\ nodeID = "n1"
    /\ peerID = "peer1"
    /\ conn = "open"
    /\ mgr = [binaryPath |-> "PATH/ipfs", ipfsClient |-> "client",
              daemonCmd |-> ProcessNames[1], daemonReady |-> TRUE]
    /\ repoExists = TRUE
    /\ watcher = "done"
    /\ regResps = << [err |-> FALSE, success |-> TRUE, nodeId |-> "n1"] >>
    /\ issued = [op \in CoordinatorOps |-> IF op \in {"Register", "GetPeers"} THEN 1 ELSE 0]
    /\ rpcs = {Request("Register", ""), Request("GetPeers", "n1")}
    /\ cp = NoFrame
    /\ hbLoop = "waiting"
    /\ hbTicks = 0
    /\ hbOKs = 0
    /\ taskLoop = "waiting"
    /\ polls = 0
    /\ handlers = EmptyBag
    /\ reported = [t \in TaskIDs |-> [s \in {"PINNED", "FAILED"} |-> 0]]
    /\ stopRet = "none"
    /\ caller = Idle
    /\ procs = <<>>
    /\ watchers = <<>>
    /\ seenReady = FALSE
    /\ hist = <<>>
    /\ main = "none"
    /\ netcfg = InitialNetcfg
    /\ configSource = SourcesRead
    /\ config = << LoadedCapacityGB(DefaultSource) >>

\* The loops just started, on a daemon whose RepoStat returns anything.
RepoStatInit ==
    /\ AfterStartLoops
    /\ repoStat \in RepoStatResults
    /\ hbSent = <<>>
    /\ reportLog = NoLog

RepoStatNext == heartbeatTick \/ heartbeatReturn \/ Cancel

RepoStatSpec == RepoStatInit /\ [][RepoStatNext]_vars

(***************************************************************************)
(* taskLoop and the pin handlers on their own, from the start of the loops, *)
(* with the log of deliveries and failed reports switched on               *)
(***************************************************************************)

TaskInit ==
    /\ AfterStartLoops
    /\ repoStat = EmptyRepoStat
    /\ hbSent = <<>>
    /\ reportLog = [NoLog EXCEPT !.on = TRUE]

TaskNext ==
    \/ taskTick
    \/ taskLoopReturn
    \/ PinReturn
    \/ ReportPinStatus
    \/ Cancel

TaskSpec == TaskInit /\ [][TaskNext]_vars

(***************************************************************************)
(* The two loops from their start to Start's return, under fair           *)
(* scheduling, with every handler held in its Pin call: ShutdownSpec       *)
(***************************************************************************)

ShutdownInit ==
    /\ AfterStartLoops
    /\ repoStat = EmptyRepoStat
    /\ hbSent = <<>>
    /\ reportLog = NoLog

ShutdownNext ==
    \/ heartbeatTick
    \/ heartbeatReturn
    \/ taskTick
    \/ taskLoopReturn
    \/ Cancel
    \/ StopDaemon
    \/ Close

\* Each select is taken again and again, and ctx.Done() stays ready once the
\* context is cancelled; Start's own goroutine runs on.
ShutdownSpec ==
    /\ ShutdownInit
    /\ [][ShutdownNext]_vars
    /\ WF_vars(heartbeatReturn)
    /\ WF_vars(taskLoopReturn)
    /\ WF_vars(StopDaemon)
    /\ WF_vars(Close)

(***************************************************************************)
(* EnsureInstalled under any caller, for a manager made with any           *)
(* BinaryPath: InstallSpec                                                 *)
(***************************************************************************)

\* IPFSManagerConfig.BinaryPath: left empty, or an explicit path.
BinaryPaths == {"", "/opt/ipfs"}

\* NewIPFSManager with any BinaryPath.
InstallInit ==
    /\ pc = "NotStarted"
    /\ startErr = "running"
    /\ steps = <<>>
    /\ failedStep = ""
    /\ cancelled = FALSE
    /\ nodeID = ""
    /\ peerID = ""
    /\ conn = "nil"
    /\ \E path \in BinaryPaths :
         mgr = [binaryPath |-> path, ipfsClient |-> "nil", daemonCmd |-> "nil",
                daemonReady |-> FALSE]
    /\ repoExists = FALSE
    /\ watcher = "none"
    /\ regResps = <<>>
    /\ issued = [op \in CoordinatorOps |-> 0]
    /\ rpcs = {}
    /\ cp = NoFrame
    /\ hbLoop = "notStarted"
    /\ hbTicks = 0
    /\ hbOKs = 0
    /\ taskLoop = "notStarted"
    /\ polls = 0
    /\ handlers = EmptyBag
    /\ reported = [t \in TaskIDs |-> [s \in {"PINNED", "FAILED"} |-> 0]]
    /\ stopRet = "none"
    /\ caller = Idle
    /\ procs = <<>>
    /\ watchers = <<>>
    /\ seenReady = FALSE
    /\ hist = <<>>
    /\ main = "none"
    /\ repoStat = EmptyRepoStat
    /\ hbSent = <<>>
    /\ netcfg = InitialNetcfg
    /\ reportLog = NoLog
    /\ configSource = SourcesRead
    /\ config = << LoadedCapacityGB(DefaultSource) >>

\* EnsureInstalled, from the stat of the binary path to its return.
IPFSManager_EnsureInstalled ==
    /\ caller = Idle
    /\ Len(hist) < MaxCalls
    /\ \E statOK, lookPathOK \in BOOLEAN :
         LET r == EnsureInstalledResult(mgr.binaryPath, statOK, lookPathOK) IN
           /\ mgr' = [mgr EXCEPT !.binaryPath = r.binaryPath]
           /\ hist' = Append(hist, [op |-> "EnsureInstalled", ret |-> ErrOrNil(r.err),
                                    pathBefore |-> mgr.binaryPath,
                                    pathAfter |-> r.binaryPath,
                                    statOK |-> statOK, lookPathOK |-> lookPathOK])
    /\ UNCHANGED << startVars, envVars, cancelled, repoExists, caller, procs, watchers,
                    seenReady >>

InstallNext == IPFSManager_EnsureInstalled

InstallSpec == InstallInit /\ [][InstallNext]_vars

(***************************************************************************)
(* LoadNodeConfig on any host: ConfigSpec                                  *)
(***************************************************************************)

\* storage.capacity_gb in node.yaml and WABISABY_NODE_STORAGE_CAPACITY_GB.
FileSettings == {<<>>, << 0 >>, << 500 >>}
EnvSettings == {<<>>, << 0 >>, << 50 >>}

\* Bavail * Bsize: nothing, 1 GiB, 1.25 GiB, 500 GiB, 1 TiB, 2^62 bytes.
AvailableSamples ==
    {<< 0, 0, 0, 0 >>, << 0, 0, 16384, 0 >>, << 0, 0, 20480, 0 >>,
     << 0, 125, 0, 0 >>, << 0, 256, 0, 0 >>, << 16384, 0, 0, 0 >>}

ConfigSources ==
    [file : FileSettings, env : EnvSettings, getwdOK : BOOLEAN,
     statfsOK : BOOLEAN, availableBytes : AvailableSamples]

\* The process before LoadNodeConfig, on any host.
ConfigInit ==
    /\ pc = "NotStarted"
    /\ startErr = "running"
    /\ steps = <<>>
    /\ failedStep = ""
    /\ cancelled = FALSE
    /\ nodeID = ""
    /\ peerID = ""
    /\ conn = "nil"
    /\ mgr = [binaryPath |-> "", ipfsClient |-> "nil", daemonCmd |-> "nil",
              daemonReady |-> FALSE]
    /\ repoExists = FALSE
    /\ watcher = "none"
    /\ regResps = <<>>
    /\ issued = [op \in CoordinatorOps |-> 0]
    /\ rpcs = {}
    /\ cp = NoFrame
    /\ hbLoop = "notStarted"
    /\ hbTicks = 0
    /\ hbOKs = 0
    /\ taskLoop = "notStarted"
    /\ polls = 0
    /\ handlers = EmptyBag
    /\ reported = [t \in TaskIDs |-> [s \in {"PINNED", "FAILED"} |-> 0]]
    /\ stopRet = "none"
    /\ caller = Idle
    /\ procs = <<>>
    /\ watchers = <<>>
    /\ seenReady = FALSE
    /\ hist = <<>>
    /\ main = "none"
    /\ repoStat = EmptyRepoStat
    /\ hbSent = <<>>
    /\ netcfg = InitialNetcfg
    /\ reportLog = NoLog
    /\ configSource \in ConfigSources
    /\ config = <<>>

\* LoadNodeConfig, as the fx provider calls it once.
LoadNodeConfig ==
    /\ config = <<>>
    /\ config' = << LoadedCapacityGB(configSource) >>
    /\ UNCHANGED << pc, startErr, steps, failedStep, cancelled, agentVars,
                    mgrVars, rpcVars, cp, hbVars, taskVars, stopRet, apiVars,
                    main, repoStat, hbSent, reportLog, netcfg, configSource >>

ConfigNext == LoadNodeConfig

ConfigSpec == ConfigInit /\ [][ConfigNext]_vars

(***************************************************************************)
(* Properties                                                              *)
(***************************************************************************)

IsPrefix(s, t) == Len(s) <= Len(t) /\ \A n \in 1..Len(s) : s[n] = t[n]

RECURSIVE Flatten(_)
Flatten(lists) == IF lists = <<>> THEN <<>> ELSE Head(lists) \o Flatten(Tail(lists))

\* A Register call has returned success and its node id is stored in the agent.
RegisterCompleted ==
    /\ regResps # <<>>
    /\ ~regResps[Len(regResps)].err
    /\ regResps[Len(regResps)].success
    /\ nodeID = regResps[Len(regResps)].nodeId

\* C1: no GetPeers, Heartbeat, GetPinTasks or ReportPinStatus call is issued
\* before a Register call has returned success and its node id is stored: every
\* step that issues one of them starts in a state where that has happened.
C1_RegisterFirst ==
    [][(\E op \in OtherOps : issued'[op] > issued[op]) => RegisterCompleted]_vars

\* Each of the four other RPCs has been issued, after a completed registration.
C1_Witness ==
    /\ RegisterCompleted
    /\ \A op \in OtherOps : issued[op] > 0

\* C2: every GetPeers, Heartbeat, GetPinTasks and ReportPinStatus request
\* carries a non-empty node id that a successful Register response assigned.
C2_CallsCarryValidNodeID ==
    \A r \in rpcs :
        r.op \in OtherOps =>
            /\ r.nodeID # ""
            /\ \E n \in 1..Len(regResps) :
                 ~regResps[n].err /\ regResps[n].success /\ regResps[n].nodeId = r.nodeID

\* C3: the startup steps run in the fixed order; once one of them has failed
\* Start has returned an error, the failed step is the last one invoked, and
\* neither loop is started; the loops run only after all seven steps succeeded.
C3_StartupOrderAndAbort ==
    /\ IsPrefix(steps, StartupOrder)
    /\ (failedStep # "" =>
          /\ pc = "Aborted"
          /\ startErr \notin {"running", "nil"}
          /\ steps[Len(steps)] = failedStep
          /\ hbLoop = "notStarted"
          /\ taskLoop = "notStarted")
    /\ (hbLoop # "notStarted" \/ taskLoop # "notStarted" =>
          steps = StartupOrder /\ failedStep = "")

\* InitializeRepo failed, in the middle of setupIPFS, and Start has returned.
C3_Witness ==
    /\ failedStep = "InitializeRepo"
    /\ steps = << "EnsureInstalled", "InitializeRepo" >>
    /\ pc = "Aborted"

\* C4: when Register returns success=false or a transport error, Register was
\* called exactly once, nodeID stays unset, Start has returned the fatal
\* registration error and no other coordinator call has been issued.
C4_RejectedRegistrationIsFatal ==
    (regResps # <<>> /\ (regResps[1].err \/ ~regResps[1].success)) =>
        /\ issued["Register"] = 1
        /\ Len(regResps) = 1
        /\ nodeID = ""
        /\ pc = "Aborted"
        /\ startErr = "initial registration failed"
        /\ \A op \in OtherOps : issued[op] = 0

\* The coordinator rejected the registration in a response that names a node id.
C4_Witness ==
    /\ regResps = << [err |-> FALSE, success |-> FALSE, nodeId |-> "n1"] >>
    /\ pc = "Aborted"

\* The handlers in state `at` for task t that report (or reported) status s.
HandlersAt(t, at, s) ==
    BagCardinality([h \in {x \in BagToSet(handlers) :
                              x.task = t /\ x.pc \in at /\ x.status = s}
                    |-> CopiesIn(h, handlers)])

\* C5: a handler never issues two ReportPinStatus calls, a finished handler
\* has issued exactly one, its status is PINNED exactly when its Pin call
\* succeeded and FAILED otherwise, and the coordinator has received one report
\* per finished handler with that status.
C5_OneReportPerHandler ==
    /\ \A h \in BagToSet(handlers) :
         /\ h.reports <= 1
         /\ h.pc = "done" => h.reports = 1
         /\ h.pc # "done" => h.reports = 0
         /\ h.pinResolved => (h.status = "PINNED" <=> ~h.pinErr)
         /\ h.pinResolved => (h.status = "FAILED" <=> h.pinErr)
    /\ \A t \in TaskIDs : \A s \in Statuses :
         reported[t][s] = HandlersAt(t, {"done"}, s)

\* One handler has reported PINNED after a successful pin, another FAILED
\* after a failed one.
C5_Witness ==
    \E h, g \in BagToSet(handlers) :
        /\ h.pc = "done" /\ ~h.pinErr /\ h.status = "PINNED"
        /\ g.pc = "done" /\ g.pinErr /\ g.status = "FAILED"

\* C6: for every task id the agent reports a terminal status at most once over
\* the whole run, whatever the coordinator redelivers.
C6_OneReportPerTask ==
    \A t \in TaskIDs : reported[t]["PINNED"] + reported[t]["FAILED"] <= 1

\* C7: for each task id at most one handler is in flight at any moment.
C7_OneHandlerInFlightPerTask ==
    \A t \in TaskIDs :
        HandlersAt(t, {"pin"}, "") + HandlersAt(t, {"report"}, "PINNED")
            + HandlersAt(t, {"report"}, "FAILED") <= 1

\* C8: a handler issues (or is about to issue) ReportPinStatus only after its
\* own Pin call has returned.
C8_ReportAfterPin ==
    \A h \in BagToSet(handlers) :
        (h.reports > 0 \/ h.pc \in {"report", "done"}) => h.pinResolved

\* A handler has reported the failure of a pin that had returned an error.
C8_Witness ==
    \E h \in BagToSet(handlers) : h.reports = 1 /\ h.pinResolved /\ h.pinErr

\* C9: a failed Heartbeat call never stops the heartbeat loop: the loop
\* returns only on cancellation, every tick taken has issued one Heartbeat
\* call, and whatever the earlier calls returned the loop takes the next tick.
C9_HeartbeatSurvivesFailures ==
    /\ hbLoop = "returned" => cancelled
    /\ issued["Heartbeat"] = hbTicks
    /\ hbOKs <= hbTicks
    /\ (hbLoop = "waiting" /\ hbTicks < MaxHeartbeats) => ENABLED heartbeatTick

\* Four ticks taken, three of their Heartbeat calls failed, and the loop is
\* back at its select.
C9_Witness ==
    /\ hbTicks = 4
    /\ issued["Heartbeat"] = 4
    /\ hbOKs = 1
    /\ hbLoop = "waiting"

\* C10: when GetPeers succeeds, connectToPeers attempts the addresses of the
\* response in order, each once, counts the attempts that did not fail, and
\* returns nil.
C10_MeshCounts ==
    /\ pc = "ConnectLoop" =>
         /\ cp.got
         /\ IsPrefix(cp.attempted, Flatten(cp.peers))
         /\ cp.connected = Len(cp.attempted) - cp.failed
    /\ (pc = "StartLoops" /\ cp.got) =>
         /\ cp.ret = "nil"
         /\ cp.attempted = Flatten(cp.peers)
         /\ cp.connected = Len(Flatten(cp.peers)) - cp.failed

\* Two peers with three addresses, two of the three connects failed.
C10_Witness ==
    /\ pc = "StartLoops"
    /\ cp.got
    /\ Len(cp.peers) = 2
    /\ Len(cp.attempted) = 3
    /\ cp.failed = 2
    /\ cp.connected = 1

\* C11: once registration has succeeded Start goes on to start both loops,
\* whatever GetPeers and the ConnectToPeer attempts return: from connectToPeers'
\* entry the run always reaches a state where both loops have been started.
C11_MeshNeverAbortsStartup ==
    (pc = "ConnectToPeers" /\ RegisterCompleted)
        ~> (hbLoop # "notStarted" /\ taskLoop # "notStarted" /\ startErr \in {"running", "nil"})

\* connectToPeers has returned an error to a Start that registered, and Start
\* is at the launch of its background workers.
C11_Witness ==
    /\ pc = "StartLoops"
    /\ cp.ret = "err"
    /\ RegisterCompleted
    /\ startErr = "running"

\* C18: once the context is cancelled no Heartbeat call and no GetPinTasks
\* call is issued any more.
C18_NoTickAfterCancel ==
    [][cancelled => /\ issued'["Heartbeat"] = issued["Heartbeat"]
                    /\ issued'["GetPinTasks"] = issued["GetPinTasks"]]_vars

\* C19: after Running a cancellation leads to StopDaemon being called and then
\* the connection being closed; the connection is never closed before
\* StopDaemon has returned, it is closed whatever StopDaemon returned, and Start
\* has returned nil only once the connection is closed.
C19_ShutdownOrder ==
    /\ [](conn = "closed" => stopRet # "none")
    /\ [](stopRet # "none" => pc \in {"Close", "Done"})
    /\ [](startErr = "nil" => conn = "closed" /\ pc = "Done")
    /\ ((pc = "Running" /\ cancelled) ~> (pc = "Done" /\ conn = "closed" /\ stopRet # "none"))

\* StopDaemon returned an error, and Start has closed the connection and returned.
C19_Witness ==
    /\ stopRet = "err"
    /\ conn = "closed"
    /\ pc = "Done"
    /\ startErr = "nil"

\* C20: the shutdown signal does not abort a dispatched handler's in-flight Pin
\* request: while a handler waits for Pin after the cancellation, its Pin
\* request can still succeed.
C20_HandlerNotAbortedBySignal ==
    (cancelled /\ \E h \in BagToSet(handlers) : h.pc = "pin") =>
        ENABLED (/\ PinReturn
                 /\ \E h \in BagToSet(handlers) :
                      /\ h.pc = "pin"
                      /\ handlers' = Replace(handlers, h, AfterPin(h, FALSE)))

\* C12: a StartDaemon called while the process of the stored handle is still
\* alive launches nothing, returns nil and leaves the handle and the readiness
\* flag as they were.
C12_StartDaemonIdempotent ==
    \A n \in 1..Len(hist) :
        (hist[n].op = "StartDaemon" /\ hist[n].alive) =>
            /\ ~hist[n].launched
            /\ hist[n].ret = "nil"
            /\ hist[n].kept

\* An InitializeRepo that found the config artifact returned nil, created no
\* directory, ran no init and left the repository as it was.
InitializeRepoNoOp ==
    \A n \in 1..Len(hist) :
        (hist[n].op = "InitializeRepo" /\ hist[n].existed) =>
            /\ hist[n].ret = "nil"
            /\ ~hist[n].mkdir
            /\ ~hist[n].ranInit
            /\ hist[n].repoKept

\* C13 as stated: InitializeRepo on an existing repository is a no-op, and any
\* two consecutive InitializeRepo calls run init at most once.
C13_InitializeRepoOnce ==
    /\ InitializeRepoNoOp
    /\ \A n \in 1..(Len(hist) - 1) :
         (hist[n].op = "InitializeRepo" /\ hist[n + 1].op = "InitializeRepo") =>
             ~(hist[n].ranInit /\ hist[n + 1].ranInit)

\* C13 as amended: InitializeRepo on an existing repository is a no-op, and of
\* two consecutive InitializeRepo calls the second runs no init when the first
\* returned nil.
C13_InitializeRepoNoOpAfterSuccess ==
    /\ InitializeRepoNoOp
    /\ \A n \in 1..(Len(hist) - 1) :
         (hist[n].op = "InitializeRepo" /\ hist[n + 1].op = "InitializeRepo"
            /\ hist[n].ret = "nil") =>
             /\ hist[n + 1].existed
             /\ ~hist[n + 1].ranInit

\* A first InitializeRepo ran init and returned nil, and the next one found
\* the repository and did nothing.
C13_Witness ==
    /\ Len(hist) >= 2
    /\ hist[1].op = "InitializeRepo" /\ hist[1].ranInit /\ hist[1].ret = "nil"
    /\ hist[2].op = "InitializeRepo" /\ hist[2].existed /\ ~hist[2].ranInit
    /\ hist[2].ret = "nil"

\* C14: GetPeerInfo's readiness polling always ends: from the wait loop Start
\* reaches the ID request (a probe was answered) or has returned the peer-info
\* error, the latter whenever no probe is ever answered.
C14_ReadinessPollingEnds ==
    (pc = "GetPeerInfoWait")
        ~> \/ pc = "GetPeerInfoID"
           \/ /\ pc = "Aborted"
              /\ failedStep = "GetPeerInfo"
              /\ startErr = "failed to get peer info"

\* The wait loop ended without an answered probe and without a cancellation,
\* and Start has returned the error.
C14_Witness ==
    /\ pc = "Aborted"
    /\ failedStep = "GetPeerInfo"
    /\ startErr = "failed to get peer info"
    /\ ~mgr.daemonReady
    /\ ~cancelled

\* C15: GetPeerInfo sends its ID request, and returns an identity, only when a
\* Version probe sent after the latest launch of a daemon has been answered.
C15_IdentityOnlyAfterProbe ==
    /\ caller = [op |-> "GetPeerInfo", at |-> "ID"] => seenReady
    /\ \A n \in 1..Len(hist) :
         (hist[n].op = "GetPeerInfo" /\ hist[n].ret = "id") => hist[n].seen

\* C16: a StopDaemon waiting in its select always returns, and when it
\* returns through the 10 s timer the process is no longer running.
C16_StopDaemonForceKills ==
    /\ [](\A n \in 1..Len(hist) :
            (hist[n].op = "StopDaemon" /\ hist[n].via = "timeout") =>
                hist[n].procAfter # "running")
    /\ (caller = [op |-> "StopDaemon", at |-> "select"]) ~> (caller = Idle)

\* The process ignored the interrupt, the context is live, and StopDaemon has
\* returned nil from Process.Kill.
C16_Witness ==
    /\ ~cancelled
    /\ \E n \in 1..Len(hist) :
         /\ hist[n].op = "StopDaemon"
         /\ hist[n].via = "timeout"
         /\ hist[n].ret = "nil"
         /\ hist[n].procAfter = "killed"

\* C17: a StopDaemon that returns because its context was cancelled during
\* the wait leaves no running process behind.
C17_StopDaemonKillsOnCancel ==
    \A n \in 1..Len(hist) :
        (hist[n].op = "StopDaemon" /\ hist[n].via = "ctx") =>
            hist[n].procAfter # "running"

\* C21: with the agent's loops started, main returns after a shutdown signal
\* only once the agent's teardown has finished: the context is cancelled,
\* StopDaemon has been called, the coordinator connection is closed and Start
\* has returned.
C21_ReturnsAfterTeardown ==
    (main = "returned" /\ hbLoop # "notStarted") =>
        /\ cancelled
        /\ stopRet # "none"
        /\ conn = "closed"
        /\ pc = "Done"

\* C22: every coordinator request sent, of any of the five RPCs, carries the
\* authorization entry with the bearer credential in its metadata.
C22_EveryCallAuthenticated ==
    \A r \in rpcs :
        /\ r.op \in CoordinatorOps
        /\ \E e \in r.auth : e[1] = "authorization" /\ e[2] = <<"Bearer", AuthToken>>

\* Each of the five RPCs has been sent with the credential.
C22_Witness ==
    \A op \in CoordinatorOps :
        \E r \in rpcs : r.op = op /\ <<"authorization", <<"Bearer", AuthToken>> >> \in r.auth

\* Neither loop has been started and no pin handler exists.
NoWorkers == hbLoop = "notStarted" /\ taskLoop = "notStarted" /\ handlers = EmptyBag

\* C23: nodeID, peerID and the connection handle are each assigned once, from
\* their zero value, by Start's own goroutine in register, after GetPeerInfo
\* and after grpc.NewClient, while no loop and no handler runs; afterwards the
\* fields keep their values (Close acts on the connection, not on the field).
C23_FieldsWrittenOnceBeforeLoops ==
    [][/\ (nodeID' # nodeID => nodeID = "" /\ pc = "Register" /\ NoWorkers)
       /\ (peerID' # peerID => peerID = "" /\ pc = "GetPeerInfoID" /\ NoWorkers)
       /\ ((conn' # conn /\ conn' # "closed") =>
              conn = "nil" /\ pc = "NewClient" /\ NoWorkers)
       /\ (conn' = "closed" /\ conn # "closed" => pc = "Close")]_vars

\* The three fields are set, both loops run, a heartbeat has been sent and a
\* handler is in flight.
C23_Witness ==
    /\ nodeID # "" /\ peerID # "" /\ conn = "open"
    /\ hbLoop = "waiting" /\ taskLoop = "waiting"
    /\ hbTicks > 0
    /\ \E h \in BagToSet(handlers) : h.pc = "pin"

\* A waitForDaemon goroutine is about to assign daemonReady and ipfsClient
\* while the caller's goroutine is inside GetPeerInfo, about to read ipfsClient
\* for a probe or the ID request or to assign daemonReady itself; the manager
\* has no lock and no atomic, so nothing orders the two accesses.
UnorderedAccess ==
    /\ ENABLED waitForDaemonMark
    /\ \/ ENABLED IPFSManager_GetPeerInfoProbeOK
       \/ ENABLED IPFSManager_GetPeerInfoID

\* C24: the watcher never writes the readiness flag or the client handle
\* while GetPeerInfo or StartDaemon accesses them unordered.
C24_ReadinessFlagGuarded == ~UnorderedAccess

\* A step of a StopDaemon call.
StopDaemonStep ==
    \/ IPFSManager_StopDaemon
    \/ IPFSManager_StopDaemonDone
    \/ IPFSManager_StopDaemonCancelled
    \/ IPFSManager_StopDaemonTimeout

\* C25: the daemon state never moves backwards: while the daemon of the
\* stored handle runs and is marked ready, no step other than one of StopDaemon
\* makes it not ready again.
C25_ReadyOnlyRevokedByStopDaemon ==
    [][(/\ mgr.daemonReady
        /\ mgr.daemonCmd # "nil"
        /\ procs[ProcessOf(mgr.daemonCmd)] = "running"
        /\ ~mgr'.daemonReady) => StopDaemonStep]_vars

\* C26: the StorageUsedBytes of a Heartbeat request is never negative; it is
\* the RepoSize RepoStat reported when that is below 2^63 (its top bit clear),
\* and 2^63 - 1 when it is not.
C26_StorageUsedSaturates ==
    (hbSent # <<>> /\ ~repoStat.err /\ ~cancelled) =>
        /\ ~hbSent[1].neg
        /\ repoStat.RepoSize[1] < 2^15 => hbSent[1].mag = repoStat.RepoSize
        /\ repoStat.RepoSize[1] >= 2^15 =>
              hbSent[1].mag = << 2^15 - 1, 2^16 - 1, 2^16 - 1, 2^16 - 1 >>

\* RepoStat reported 2^63, the first size int64 cannot hold, and the request
\* carries 2^63 - 1.
C26_Witness ==
    /\ ~repoStat.err
    /\ repoStat.RepoSize = << 2^15, 0, 0, 0 >>
    /\ hbSent = << [neg |-> FALSE, mag |-> << 2^15 - 1, 2^16 - 1, 2^16 - 1, 2^16 - 1 >>] >>

\* The handlers ever started for task t.
HandlersFor(t) ==
    BagCardinality([h \in {x \in BagToSet(handlers) : x.task = t} |-> CopiesIn(h, handlers)])

\* The handlers for task t that have ended.
HandlersDone(t) == HandlersAt(t, {"done"}, "PINNED") + HandlersAt(t, {"done"}, "FAILED")

\* The failed ReportPinStatus calls logged for task t.
FailedReports(t) == Cardinality({n \in 1..Len(reportLog.failed) : reportLog.failed[n].task = t})

\* C27: a ReportPinStatus call that fails is the handler's only one and ends
\* the handler, and the agent starts a handler for a task only when a
\* GetPinTasks response delivers it: per task, the calls issued are those of
\* the ended handlers, one each, the failed ones among them, and the handlers
\* started are as many as the deliveries.
C27_FailedReportNotRetried ==
    /\ \A h \in BagToSet(handlers) : h.reports = (IF h.pc = "done" THEN 1 ELSE 0)
    /\ \A t \in TaskIDs :
         /\ reported[t]["PINNED"] + reported[t]["FAILED"] = HandlersDone(t)
         /\ FailedReports(t) <= HandlersDone(t)
         /\ HandlersFor(t) = reportLog.delivered[t]

\* The report for t1 failed on a live context, a later poll was taken, and
\* the one delivery of t1 has had its one handler and its one report.
C27_Witness ==
    /\ ~cancelled
    /\ reportLog.delivered["t1"] = 1
    /\ FailedReports("t1") = 1
    /\ \E n \in 1..Len(reportLog.failed) :
         reportLog.failed[n].task = "t1" /\ reportLog.failed[n].polls < polls
    /\ HandlersFor("t1") = 1
    /\ HandlersDone("t1") = 1
    /\ reported["t1"]["PINNED"] + reported["t1"]["FAILED"] = 1

\* C28: once setupIPFS has returned nil and Start has gone on to GetPeerInfo,
\* the repository has a swarm key and none of the default public bootstrap
\* nodes is left in its bootstrap list.
C28_PrivateNetworkConfigured ==
    (Len(steps) >= 5 /\ steps[5] = "GetPeerInfo") =>
        /\ netcfg.swarmKey # ""
        /\ netcfg.bootstrap \cap DefaultBootstrap = {}

\* C29: a ConfigurePrivateNetwork call with a non-empty peer list that returned
\* nil has left the bootstrap list with exactly the peers supplied, none of
\* the default entries among them.
C29_BootstrapReplaced ==
    \A n \in 1..Len(hist) :
        (/\ hist[n].op = "ConfigurePrivateNetwork"
         /\ hist[n].peers # <<>>
         /\ hist[n].ret = "nil") =>
            /\ hist[n].bootstrap = {hist[n].peers[i] : i \in 1..Len(hist[n].peers)}
            /\ hist[n].bootstrap \cap DefaultBootstrap = {}

\* C30: a StopDaemon called when no StartDaemon of this manager has launched
\* a daemon returns nil at once and has sent no signal.
C30_StopDaemonWithoutDaemon ==
    \A n \in 1..Len(hist) :
        (/\ hist[n].op = "StopDaemon"
         /\ \A m \in 1..(n - 1) : ~hist[m].launched) =>
            /\ hist[n].ret = "nil"
            /\ ~hist[n].signalled
            /\ hist[n].via = "noDaemon"

\* A StartDaemon failed to launch the daemon, and the StopDaemon after it
\* returned nil without a signal.
C30_Witness ==
    /\ Len(hist) >= 2
    /\ hist[1].op = "StartDaemon" /\ hist[1].ret = "err" /\ ~hist[1].launched
    /\ hist[2].op = "StopDaemon" /\ hist[2].ret = "nil" /\ ~hist[2].signalled
    /\ procs = <<>>

\* C31: when storage.capacity_gb is not set, the loaded capacity is 80% of
\* the available disk space in GB, and 100 GB only when detection fails.
C31_UnsetCapacityIsDetected ==
    (config # <<>> /\ configSource.env = <<>> /\ configSource.file = <<>>)
        => config[1] = IF detectStorageCapacity(configSource) > 0
                       THEN detectStorageCapacity(configSource)
                       ELSE FallbackCapacityGB

\* C32: a poll that fails leaves the handlers as they were and the loop
\* waiting, as does a response without tasks; a response with tasks starts
\* handlers; and a waiting loop can always take its next tick.
C32_FailedPollSkipsTick ==
    /\ [][polls' = polls + 1 =>
            /\ issued'["GetPinTasks"] = issued["GetPinTasks"] + 1
            /\ taskLoop' = "waiting"
            /\ (Len(reportLog'.pollErrs) > Len(reportLog.pollErrs)
                    => handlers' = handlers /\ reportLog'.delivered = reportLog.delivered)
            /\ (reportLog'.delivered = reportLog.delivered <=> handlers' = handlers)]_vars
    /\ []((taskLoop = "waiting" /\ polls < MaxPolls) => ENABLED taskTick)
    /\ [](\A n \in 1..Len(reportLog.pollErrs) : reportLog.pollErrs[n] <= polls)

\* The first poll failed on a live context and dispatched nothing; the second
\* poll delivered t1, whose handler is running.
C32_Witness ==
    /\ ~cancelled
    /\ reportLog.pollErrs = << 1 >>
    /\ polls = 2
    /\ reportLog.delivered["t1"] = 1
    /\ HandlersFor("t1") = 1
    /\ taskLoop = "waiting"

\* C36: every tick taken has issued one Heartbeat call, whatever RepoStat
\* returned; when RepoStat fails the request carries 0 used bytes; and the
\* loop neither returns for it nor stops taking ticks.
C36_HeartbeatSentWithoutStat ==
    /\ issued["Heartbeat"] = hbTicks
    /\ hbSent # <<>> <=> hbTicks > 0
    /\ (hbSent # <<>> /\ repoStat.err) => hbSent[1] = Int64Of(ZeroWord)
    /\ hbLoop = "returned" => cancelled
    /\ (hbLoop = "waiting" /\ hbTicks < MaxHeartbeats) => ENABLED heartbeatTick

\* RepoStat fails on a live context: two ticks have each sent a Heartbeat,
\* the last one with 0 used bytes, and the loop is back at its select.
C36_Witness ==
    /\ repoStat.err
    /\ repoStat.RepoSize = << 0, 0, 0, 1 >>
    /\ ~cancelled
    /\ hbTicks = 2
    /\ issued["Heartbeat"] = 2
    /\ hbSent = << Int64Of(ZeroWord) >>
    /\ hbLoop = "waiting"

\* C33: a waiting heartbeat loop can take its tick whatever the task loop
\* and the handlers are doing, a waiting task loop can poll whatever the
\* heartbeat loop does and however many handlers sit in Pin, and can start
\* further handlers beside them; a heartbeat tick changes nothing of the task
\* loop and a poll nothing of the heartbeat loop.
C33_LoopsIndependent ==
    /\ []((hbLoop = "waiting" /\ hbTicks < MaxHeartbeats) => ENABLED heartbeatTick)
    /\ []((taskLoop = "waiting" /\ polls < MaxPolls) => ENABLED taskTick)
    /\ []((taskLoop = "waiting" /\ polls < MaxPolls /\ ~cancelled
              /\ BagCardinality(handlers) < MaxHandlers)
             => ENABLED (taskTick /\ handlers' # handlers))
    /\ [][hbTicks' # hbTicks => UNCHANGED << taskLoop, polls, handlers >>]_vars
    /\ [][polls' # polls => UNCHANGED << hbLoop, hbTicks, hbOKs >>]_vars

\* The heartbeat loop has not completed a tick, the handler the first poll
\* started for t1 is still in Pin, and the second poll has started another.
C33_Witness ==
    /\ ~cancelled
    /\ hbTicks = 0
    /\ hbLoop = "waiting"
    /\ polls = 2
    /\ HandlersAt("t1", {"pin"}, "") = 2
    /\ taskLoop = "waiting"

\* C39: once the context is cancelled, both loops return and Start returns,
\* and a loop that has returned takes no further tick.
C39_LoopsAndStartReturn ==
    /\ cancelled ~> (hbLoop = "returned" /\ taskLoop = "returned" /\ pc = "Done")
    /\ [][hbLoop = "returned" => hbTicks' = hbTicks]_vars
    /\ [][taskLoop = "returned" => polls' = polls]_vars

\* Both loops ticked, the context was cancelled, and the loops and Start
\* have returned with ticks to spare.
C39_Witness ==
    /\ cancelled
    /\ hbLoop = "returned"
    /\ taskLoop = "returned"
    /\ pc = "Done"
    /\ hbTicks = 2
    /\ polls = 1

\* C34: StartDaemon returns nil on the launch itself, with the daemon not
\* ready and the watcher still polling, and fails only when nothing was
\* launched; the watcher's ending without a ready daemon leaves the manager
\* and Start as they are; Start can still see the daemon ready by its own
\* probe; and with a daemon launched and never ready Start aborts only in
\* GetPeerInfo.
C34_WatcherTimeoutOnlyLogs ==
    /\ [][(pc = "StartDaemon" /\ pc' = "GetPeerInfo" /\ mgr' # mgr)
             => (~mgr'.daemonReady /\ watcher' = "polling")]_vars
    /\ [](failedStep = "StartDaemon" => mgr.daemonCmd = "nil")
    /\ [][(watcher = "polling" /\ watcher' = "done")
             => /\ pc' = pc /\ startErr' = startErr /\ failedStep' = failedStep
                /\ mgr'.daemonCmd = mgr.daemonCmd
                /\ (mgr' = mgr \/ mgr'.daemonReady)]_vars
    /\ []((pc = "GetPeerInfoWait" /\ ~cancelled) => ENABLED GetPeerInfoProbeOK)
    /\ []((pc = "Aborted" /\ mgr.daemonCmd # "nil" /\ ~mgr.daemonReady)
             => failedStep = "GetPeerInfo")

\* The watcher has given up on a live context with the daemon launched and
\* not ready, and Start is in GetPeerInfo's own wait.
C34_Witness ==
    /\ ~cancelled
    /\ watcher = "done"
    /\ mgr.daemonCmd # "nil"
    /\ ~mgr.daemonReady
    /\ pc = "GetPeerInfoWait"
    /\ startErr = "running"

C37_AbortLeavesDaemonAndConn ==
    /\ pc = "Aborted" =>
         /\ stopRet = "none"
         /\ conn # "closed"
         /\ failedStep \in {"GetPeerInfo", "NewClient", "Register"} => mgr.daemonCmd # "nil"
         /\ failedStep = "Register" => conn = "open"
    /\ stopRet # "none" => hbLoop # "notStarted"
    /\ conn = "closed" => (pc = "Done" /\ stopRet # "none")

\* Register failed on a live context: Start has returned its error with the
\* daemon launched, StopDaemon not called and the connection open.
C37_Witness ==
    /\ ~cancelled
    /\ pc = "Aborted"
    /\ failedStep = "Register"
    /\ startErr = "initial registration failed"
    /\ mgr.daemonCmd # "nil"
    /\ stopRet = "none"
    /\ conn = "open"

\* C38: while the context is done, a StopDaemon at its select can return at
\* once through ctx.Done() and cannot take the 10 s timer; a return through
\* ctx.Done() is an error that leaves every process as it was, running or
\* not; and no return through the timer happens on a done context.
C38_StopDaemonOnDoneContext ==
    /\ []((caller = [op |-> "StopDaemon", at |-> "select"] /\ cancelled)
             => /\ ENABLED IPFSManager_StopDaemonCancelled
                /\ ~ENABLED IPFSManager_StopDaemonTimeout)
    /\ [][(Len(hist') > Len(hist) /\ hist'[Len(hist')].op = "StopDaemon")
             => LET h == hist'[Len(hist')] IN
                  /\ h.via = "ctx" => (h.ret = "err" /\ procs' = procs /\ cancelled)
                  /\ h.via = "timeout" => ~cancelled]_vars

\* GetPeerInfo has returned on the cancelled context, and the StopDaemon
\* called after it has returned through ctx.Done() with the daemon running.
C38_Witness ==
    /\ cancelled
    /\ Len(hist) = 3
    /\ hist[1].op = "StartDaemon" /\ hist[1].launched
    /\ hist[2].op = "GetPeerInfo" /\ hist[2].via = "ctx"
    /\ hist[3].op = "StopDaemon" /\ hist[3].via = "ctx" /\ hist[3].ret = "err"
    /\ hist[3].procAfter = "running"
    /\ caller = Idle

====
